---- MODULE Spec2Model ----
(***************************************************************************)
(* Model of github.com/pentops/runner.                                     *)
(*                                                                         *)
(*  - runner.Group   (src/rungroup.go): the supervised run group built on  *)
(*    errgroup: Add / Start / Run / Wait, the hold-open worker, the runner *)
(*    goroutines and the goroutine Wait starts.                            *)
(*  - parallel.Group (package parallel): Go / handleErr / Wait.            *)
(*                                                                         *)
(* Values of type error are strings: Nil, Canceled and the errors the      *)
(* runner functions return.                                                *)
(***************************************************************************)
EXTENDS Integers, Sequences, FiniteSets, TLC

\* ------------------------------------------------------------------ bounds
\* At most MaxRunners functions are handed to Add, and the callers issue at
\* most MaxCalls calls of Add, Start, Wait and Run in all.
MaxRunners == 2
MaxCalls == 3

Callers == {"c1", "c2"}

\* ------------------------------------------------------------- error values
Nil == "nil"
Canceled == "context canceled"
ErrAlreadyTriggered == "group already triggered"
ErrAlreadyWaiting == "group is already waiting"
PanicAlreadyWaiting == "panic: group is already waiting"
PanicCloseNil == "panic: close of nil channel"

\* -------------------------------------------------------------- log lines
LogLineGroupStarted == "Run group triggered"
LogLineGroupExited == "Run group exited"
LogLineGroupExitedWithError == "Run group exited with error"
LogLineRunnerStarted == "Runner started"
LogLineRunnerExited == "Runner exited"
LogLineRunnerExitedWithError == "Runner exited with error"
LogLineRunnerExitedWithContextCanceledError == "Runner exited with context canceled"
LogLineWaitingForRunner == "Waiting for runner"
LogLineAllRunnersExited == "All runners exited"

\* The runner functions f(ctx) handed to Add, by what they do:
\*   ok       returns nil whenever it likes (it never looks at ctx)
\*   fail     returns errors.New("Error <i>") whenever it likes, <i> being
\*            the runner's place in gg.runners (as in TestMultipleErrors)
\*   canceled returns context.Canceled whenever it likes, of its own accord
\*   waitDone blocks on <-ctx.Done() and then returns ctx.Err()
Kinds == {"ok", "fail", "canceled", "waitDone"}
\* and one more, which only the re-entrant executions use:
\*   adder    calls gg.Add(name, f) on its own group, f being of kind ok,
\*            and then returns nil

VARIABLES
    cancelOnSignals,  \* Group.cancelOnSignals is non-empty
    running,          \* Group.running
    isWaiting,        \* Group.isWaiting
    runners,          \* Group.runners, with each runner goroutine's position
    controlMutex,     \* Group.controlMutex: "free" or the caller holding it
    errGroup,         \* Group.errGroup: the errgroup's err, wait counter
    runContext,       \* Group.runContext: done and its cause
    holdOpen,         \* Group.holdOpen: "nil", "open", "closed"
    holdPc,           \* the hold-open worker: "none", "waiting", "done"
    monitor,          \* the goroutine Wait starts
    groupLog,         \* log entries without a runner field, in order
    firstFailed,      \* the first runner whose error reached the errgroup
    parentDone,       \* the context handed to Start is cancelled
    signalled,        \* one of the configured signals was received
    callers,          \* the goroutines calling Add/Start/Run/Wait
    calls,            \* number of API calls issued so far
    last,             \* the call that completed last and what it returned
    waitResult        \* what the Wait that waited returned ("-": not yet)

groupVars == <<cancelOnSignals, running, isWaiting, runners, controlMutex,
               errGroup, runContext, holdOpen, holdPc, monitor, groupLog,
               firstFailed, parentDone, signalled, callers, calls,
               last, waitResult>>

\* ---- package parallel: Group
\* The functions handed to Go, by what they do (the i-th one):
\*   ok       returns nil whenever it likes
\*   fail     returns fmt.Errorf("Error <i>") whenever it likes
\*   waitNil  blocks on <-ctx.Done() and then returns nil
\*   waitErr  blocks on <-ctx.Done() and then returns ctx.Err()
\*   waitFail blocks on <-ctx.Done() and then returns its own "Error <i>"
MaxGo == 3
ParKinds == {"ok", "fail", "waitNil", "waitErr", "waitFail"}

VARIABLES
    ctxDone,          \* parallel.Group.ctx is done
    parParentDone,    \* the context given to parallel.NewGroup is cancelled
    firstErr,         \* parallel.Group.firstErr
    wg,               \* parallel.Group.wg: its counter
    funcs,            \* the goroutines started by Go, with their positions
    parWait,          \* the caller of parallel.Group.Wait: pc and result
    firstHandled      \* the first goroutine to enter handleErr's section

parVars == <<ctxDone, parParentDone, firstErr, wg, funcs, parWait,
             firstHandled>>

\* ---- package cliconf (and the runner package's entry.go): the tokenizer
\* Go strings are sequences of one-character strings, so that prefixes,
\* splitting and lower-casing are computed as the code computes them.
MaxArgs == 3

HasPrefix(s, prefix) ==
    Len(s) >= Len(prefix) /\ SubSeq(s, 1, Len(prefix)) = prefix

TrimPrefix(s, prefix) ==
    IF HasPrefix(s, prefix) THEN SubSeq(s, Len(prefix) + 1, Len(s)) ELSE s

\* strings.Index for a one-character separator: 0 when it does not occur.
Index(s, sep) ==
    IF \E i \in 1..Len(s) : s[i] = sep
    THEN CHOOSE i \in 1..Len(s) :
             s[i] = sep /\ \A j \in 1..(i - 1) : s[j] # sep
    ELSE 0

\* strings.SplitN(s, sep, 2)
SplitN(s, sep) ==
    LET i == Index(s, sep) IN
    IF i = 0 THEN <<s>>
    ELSE <<SubSeq(s, 1, i - 1), SubSeq(s, i + 1, Len(s))>>

LowerChar(c) ==
    CASE c = "A" -> "a" [] c = "E" -> "e" [] c = "F" -> "f"
      [] c = "L" -> "l" [] c = "R" -> "r" [] c = "S" -> "s"
      [] c = "T" -> "t" [] c = "U" -> "u" [] OTHER -> c

\* strings.ToLower
ToLower(s) == [i \in 1..Len(s) |-> LowerChar(s[i])]

Dash == <<"-">>
Equals == <<"=">>
boolTrue == <<"t", "r", "u", "e">>
boolFalse == <<"f", "a", "l", "s", "e">>

\* The names and values of TestCommandFlagParse.
sFoo == <<"f", "o", "o">>
sBar == <<"b", "a", "r">>
sB1 == <<"b", "1">>
sB2 == <<"b", "2">>
sB3 == <<"b", "3">>
sF1 == <<"f", "1">>
sF2 == <<"f", "2">>

\* "--name", "-name" and "--name=value" as they are typed.
Long(name) == Dash \o Dash \o name
Short(name) == Dash \o name
LongEq(name, value) == Dash \o Dash \o name \o Equals \o value
ShortEq(name, value) == Dash \o name \o Equals \o value

\* The argument lists tried: every list of at most MaxArgs of these tokens,
\* with b1 boolean or not, and the three cases of TestCommandFlagParse.
TokTokens ==
    { Long(sFoo), Short(sFoo), LongEq(sBar, sBar),
      ShortEq(sBar, sF1 \o Equals \o sF2),
      Long(sB1), Short(sB1), LongEq(sB1, boolFalse),
      boolTrue, <<"F", "A", "L", "S", "E">>, sF1, Dash }

TokBooleans == { {}, {sB1} }

SeqsUpTo(S, n) == UNION { [1..k -> S] : k \in 0..n }

TestCommandFlagParse ==
    { [booleans |-> {sB1, sB2, sB3},
       src |-> <<Long(sFoo), sFoo, LongEq(sBar, sBar)>>],
      [booleans |-> {sB1, sB2, sB3},
       src |-> <<Long(sFoo), sFoo, LongEq(sBar, sBar), Long(sB1),
                 LongEq(sB2, boolTrue), Long(sB3), boolTrue, sF1, sF2>>],
      [booleans |-> {sB1, sB2, sB3}, src |-> <<Long(sB1)>>] }

TokInputs ==
    { [booleans |-> b, src |-> a] :
        b \in TokBooleans, a \in SeqsUpTo(TokTokens, MaxArgs) }
    \cup TestCommandFlagParse

\* Go values that may be nil: a map, a slice, an error.
GoNil == [nil |-> TRUE]
Some(v) == [nil |-> FALSE, val |-> v]

\* make(map[string]string), and m[k] = v
EmptyMap == [k \in {} |-> <<>>]
MapPut(m, k, v) == [x \in (DOMAIN m) \cup {k} |-> IF x = k THEN v ELSE m[x]]

\* (mutant: the entry a field took stays in the map)
MapDelete_Keep(m, k) == m

\* delete(m, k)
MapDelete(m, k) == [x \in (DOMAIN m) \ {k} |-> m[x]]

\* ParamErrors{{Flag: arg, Err: fmt.Errorf("flag has no value")}} (cliconf)
\* and fmt.Errorf("flag %v has no value", arg) (runner).
ErrFlagHasNoValue == "flag has no value"
FlagHasNoValue(variant, arg) ==
    IF variant = "cliconf"
    THEN [nil |-> FALSE, type |-> "ParamErrors",
          val |-> << [Flag |-> arg, Err |-> ErrFlagHasNoValue] >>]
    ELSE [nil |-> FALSE, type |-> "error",
          val |-> <<"flag ", arg, " has no value">>]

PanicIndexOutOfRange == "panic: index out of range [0] with length 0"

VARIABLES
    impl,             \* which parseFlags runs: "cliconf" or "runner"
    booleans,         \* parseFlags' booleans argument
    args,             \* the argument list the caller passed
    src,              \* parseFlags' src: what is left to look at
    flagMap,          \* parseFlags' flagMap
    roles,            \* for each element consumed so far: "flag" or "value"
    tokPc,            \* "idle", "loop", "returned" or "panicked"
    parseFlagsRet     \* what parseFlags returned (or the panic's message)

tokVars == <<impl, booleans, args, src, flagMap, roles, tokPc, parseFlagsRet>>


\* No call of parseFlags is under way.
NoRet == [flagMap |-> GoNil, remainingArgs |-> GoNil, err |-> GoNil,
          panic |-> Nil]
TokIdle ==
    /\ impl = "-"
    /\ booleans = {}
    /\ args = <<>>
    /\ src = <<>>
    /\ flagMap = EmptyMap
    /\ roles = <<>>
    /\ tokPc = "idle"
    /\ parseFlagsRet = NoRet


\* ---- package cliconf: ParseCombined
\* A structure is the sequence of its fields as declared: name, type and the
\* tags flag, env, default and optional/required. Nested structures are not
\* among the structures tried.
sN == <<"n">>
sOpt == <<"o", "p", "t">>
sZz == <<"z", "z">>
sP == <<"p">>
s7 == <<"7">>
sX == <<"x">>
envFileFlag == <<"e", "n", "v", "f", "i", "l", "e">>
tagArg == <<"a", "r", "g">>
tagRemaining == <<"r", "e", "m", "a", "i", "n", "i", "n", "g">>

Decl(name, type, flag, env, default, optional) ==
    [name |-> name, type |-> type, flag |-> flag, env |-> env,
     default |-> default, optional |-> optional]

fFoo == Decl("Foo", "string", sFoo, "FOO", GoNil, FALSE)
fBar == Decl("Bar", "string", sBar, "BAR", Some(sBar), FALSE)
fBaz == Decl("Baz", "bool", sB1, "", GoNil, FALSE)
fArg == Decl("Arg", "string", <<",">> \o tagArg \o <<"0">>, "", GoNil, TRUE)
fNum == Decl("Num", "int", sN, "N", GoNil, FALSE)
fVerbose == Decl("Verbose", "bool", sB1, "B1", Some(boolTrue), FALSE)
fEmp == Decl("Emp", "string", <<>>, "EMP", Some(<<>>), FALSE)
fOpt == Decl("Opt", "string", sOpt, "", GoNil, TRUE)
fCount == Decl("Count", "int", <<",">> \o tagArg \o <<"1">>, "", GoNil, FALSE)
fRest == Decl("Rest", "[]string", <<",">> \o tagRemaining, "", GoNil, FALSE)
fMore == Decl("More", "[]string", <<",">> \o tagRemaining, "", GoNil, FALSE)
fEnvFile == Decl("EnvFile", "string", envFileFlag, "", GoNil, TRUE)
fNamedArg ==
    Decl("NamedArg", "string", sFoo \o <<",">> \o tagArg \o <<"0">>, "", GoNil,
         FALSE)
fNamedRest ==
    Decl("NamedRest", "[]string", sBar \o <<",">> \o tagRemaining, "", GoNil,
         FALSE)
fEnvArg == Decl("EnvArg", "string", <<",">> \o tagArg \o <<"0">>, "FOO", GoNil, TRUE)
fEnvRest == Decl("EnvRest", "[]string", <<",">> \o tagRemaining, "BAR", GoNil, TRUE)

\* TestConfig of the package's test, and three more structures.
TestConfig == <<fFoo, fBar, fBaz, fArg>>
FlagConfig == <<fNum, fFoo, fVerbose, fEmp, fOpt>>
ArgConfig == <<fArg, fCount, fRest, fEnvFile>>
TwoRemaining == <<fRest, fFoo, fMore>>
\* A flag name with ,arg0; a flag name with ,remaining; an env name with each.
NamedArgConfig == <<fFoo, fNamedArg>>
NamedRestConfig == <<fNamedRest>>
EnvArgConfig == <<fEnvArg, fEnvRest>>
Structs ==
    {TestConfig, FlagConfig, ArgConfig, TwoRemaining, NamedArgConfig,
     NamedRestConfig, EnvArgConfig}

EnvNames == {"FOO", "BAR", "N", "B1", "EMP"}
NoEnv == [n \in EnvNames |-> <<>>]

\* The process environment and the content of the env file "p" (GoNil: there
\* is no such file).
Environments ==
    { [environ |-> NoEnv,
       file |-> Some(("FOO" :> sF2) @@ ("N" :> s7))],
      [environ |-> [NoEnv EXCEPT !["FOO"] = sF2, !["N"] = sX,
                                 !["B1"] = boolTrue],
       file |-> GoNil] }

CliTokens ==
    { LongEq(sFoo, sF1), Long(sFoo), LongEq(sFoo, <<>>), Long(sB1),
      LongEq(sN, sX), LongEq(sN, s7), sF1, s7, LongEq(sZz, sF1),
      LongEq(envFileFlag, sP) }

\* strconv.Atoi: an optional sign and at least one digit.
Digits == {"0", "1", "2", "3", "4", "5", "6", "7", "8", "9"}
DigitVal(c) ==
    CASE c = "0" -> 0 [] c = "1" -> 1 [] c = "2" -> 2 [] c = "3" -> 3
      [] c = "4" -> 4 [] c = "5" -> 5 [] c = "6" -> 6 [] c = "7" -> 7
      [] c = "8" -> 8 [] c = "9" -> 9
RECURSIVE DigitsVal(_)
DigitsVal(s) ==
    IF Len(s) = 0 THEN 0
    ELSE 10 * DigitsVal(SubSeq(s, 1, Len(s) - 1)) + DigitVal(s[Len(s)])
ErrSyntax == "invalid syntax"
Atoi(s) ==
    LET signed == Len(s) > 0 /\ s[1] \in {"+", "-"}
        digits == IF signed THEN Tail(s) ELSE s
    IN  IF Len(digits) > 0 /\ \A i \in 1..Len(digits) : digits[i] \in Digits
        THEN [val |-> IF signed /\ s[1] = "-" THEN 0 - DigitsVal(digits)
                      ELSE DigitsVal(digits),
              err |-> GoNil]
        ELSE [val |-> 0, err |-> Some(ErrSyntax)]

ErrorValue(msg) == [nil |-> FALSE, type |-> "error", val |-> msg]
ParamErrorsValue(errs) == [nil |-> FALSE, type |-> "ParamErrors", val |-> errs]

ErrNameWithRemaining == "param name cannot be used with ,remaining"
ErrNameWithArgN == "param name cannot be used with ,argN"
ErrRemainingNotSlice == "remaining args must be a slice"
ErrInvalidArgNumber == "invalid arg number"
ErrOnlyOneRemaining == "only one field can be tagged with ,remaining"
ErrNoTag == "field has no flag, env, argn, or remaining tag"
ErrTooManyRemaining == "too many remaining args"
ErrRequired == "required"
ErrUnknownFlag == "unknown flag"
ErrNoSuchFile == "no such file or directory"

\* structField: the field a declaration stands for, nil when it has neither
\* a flag nor an env tag, or the error of a bad tag.
structField(decl) ==
    LET parts == SplitN(decl.flag, ",")
        flagName == parts[1]
        parsed == [fieldName |-> decl.name, type |-> decl.type,
                   isBool |-> decl.type = "bool",
                   envName |-> decl.env, flagName |-> flagName,
                   remaining |-> FALSE, argn |-> GoNil,
                   defaultVal |-> decl.default, optional |-> decl.optional]
        flagFlag == parts[2]
        number == Atoi(TrimPrefix(flagFlag, tagArg))
    IN  IF decl.env = "" /\ decl.flag = <<>>
        THEN [field |-> GoNil, err |-> GoNil]
        ELSE IF Len(parts) # 2
        THEN [field |-> Some(parsed), err |-> GoNil]
        ELSE IF flagFlag = tagRemaining
        THEN IF flagName # <<>>
             THEN [field |-> GoNil, err |-> ErrorValue(ErrNameWithRemaining)]
             ELSE IF decl.type # "[]string"
             THEN [field |-> GoNil, err |-> ErrorValue(ErrRemainingNotSlice)]
             ELSE [field |-> Some([parsed EXCEPT !.remaining = TRUE]),
                   err |-> GoNil]
        ELSE IF HasPrefix(flagFlag, tagArg)
        THEN IF flagName # <<>>
             THEN [field |-> GoNil, err |-> ErrorValue(ErrNameWithArgN)]
             ELSE IF ~number.err.nil
             THEN [field |-> GoNil, err |-> ErrorValue(ErrInvalidArgNumber)]
             ELSE [field |-> Some([parsed EXCEPT !.argn = Some(number.val)]),
                   err |-> GoNil]
        ELSE [field |-> Some(parsed), err |-> GoNil]

\* findStructFields over a structure without nested structures: the fields
\* in declaration order, or the first error.
RECURSIVE findStructFields(_)
findStructFields(decls) ==
    IF Len(decls) = 0 THEN [fields |-> <<>>, err |-> GoNil]
    ELSE LET parsed == structField(decls[1])
             rest == findStructFields(Tail(decls))
         IN  IF ~parsed.err.nil THEN [fields |-> <<>>, err |-> parsed.err]
             ELSE IF ~rest.err.nil THEN rest
             ELSE [fields |-> (IF parsed.field.nil THEN <<>>
                               ELSE <<parsed.field.val>>) \o rest.fields,
                   err |-> GoNil]

\* ParseCombined's first loop: what the fields are sorted into.
NoBindings ==
    [argMap |-> EmptyMap, remaining |-> GoNil, booleans |-> {},
     flagEnvFields |-> <<>>, hasEnvFileFlag |-> FALSE, err |-> GoNil]

RECURSIVE SortFields(_, _)
SortFields(fields, acc) ==
    IF Len(fields) = 0 \/ ~acc.err.nil THEN acc
    ELSE LET field == fields[1]
             a1 == [acc EXCEPT
                      !.booleans = IF field.isBool
                                   THEN @ \cup {field.flagName} ELSE @,
                      !.hasEnvFileFlag = @ \/ field.flagName = envFileFlag]
             a2 == IF ~field.argn.nil
                   THEN [a1 EXCEPT !.argMap = MapPut(@, field.argn.val, field)]
                   ELSE IF field.remaining
                   THEN IF ~a1.remaining.nil
                        THEN [a1 EXCEPT !.err = ErrorValue(ErrOnlyOneRemaining)]
                        ELSE [a1 EXCEPT !.remaining = Some(field)]
                   ELSE IF field.flagName # <<>> \/ field.envName # ""
                   THEN [a1 EXCEPT
                           !.flagEnvFields = Append(@, field)]
                   ELSE [a1 EXCEPT !.err = ErrorValue(ErrNoTag)]
         IN  SortFields(Tail(fields), a2)

\* (mutant: a second ,remaining field is not an error)
Bindings_SecondRemainingAccepted(decls) ==
    LET found == findStructFields(decls)
        sorted == SortFields(found.fields, NoBindings)
    IN  IF ~found.err.nil THEN [NoBindings EXCEPT !.err = found.err]
        ELSE IF sorted.err = ErrorValue(ErrOnlyOneRemaining)
        THEN [sorted EXCEPT !.err = GoNil]
        ELSE sorted

\* Everything ParseCombined does before it calls parseFlags.
Bindings(decls) ==
    LET found == findStructFields(decls) IN
    IF ~found.err.nil THEN [NoBindings EXCEPT !.err = found.err]
    ELSE SortFields(found.fields, NoBindings)

\* os.Getenv
Getenv(env, name) == IF name \in DOMAIN env THEN env[name] ELSE <<>>

\* (mutant: the environment is asked before the flag map)
popValue_EnvFirst(tag, m, env) ==
    IF tag.envName # "" /\ Getenv(env, tag.envName) # <<>>
    THEN [val |-> Some(Getenv(env, tag.envName)), flagMap |-> m]
    ELSE IF tag.flagName # <<>> /\ tag.flagName \in DOMAIN m
    THEN [val |-> Some(m[tag.flagName]),
          flagMap |-> MapDelete(m, tag.flagName)]
    ELSE IF tag.isBool
    THEN [val |-> Some(boolFalse), flagMap |-> m]
    ELSE [val |-> tag.defaultVal, flagMap |-> m]

\* cmdData.popValue: the string the field is set from (nil: none), and the
\* flag map without the entry it took.
popValue(tag, m, env) ==
    IF tag.flagName # <<>> /\ tag.flagName \in DOMAIN m
    THEN [val |-> Some(m[tag.flagName]),
          flagMap |-> MapDelete(m, tag.flagName)]
    ELSE IF tag.envName # "" /\ Getenv(env, tag.envName) # <<>>
    THEN [val |-> Some(Getenv(env, tag.envName)), flagMap |-> m]
    ELSE IF tag.isBool
    THEN [val |-> Some(boolFalse), flagMap |-> m]
    ELSE [val |-> tag.defaultVal, flagMap |-> m]

\* setFieldValue / SetFromString for the types string, bool and int: the
\* value the field holds afterwards and the error.
setFieldValue(field, stringValue) ==
    CASE field.type = "string" ->
            [val |-> Some(stringValue), err |-> GoNil]
      [] field.type = "bool" ->
            [val |-> Some(HasPrefix(ToLower(stringValue), <<"t">>)),
             err |-> GoNil]
      [] field.type = "int" ->
            [val |-> Some(Atoi(stringValue).val),
             err |-> Atoi(stringValue).err]

\* field.ParamDef(): the names a ParamError carries for a field.
FieldParamDef(field) ==
    [Flag |-> field.flagName, Env |-> field.envName,
     FieldName |-> field.fieldName, ArgN |-> field.argn,
     Remaining |-> field.remaining]

\* ParamDef{Flag: k} and ParamDef{Remaining: true}
NoParamDef ==
    [Flag |-> <<>>, Env |-> "", FieldName |-> "", ArgN |-> GoNil,
     Remaining |-> FALSE]

ParamError(def, err) == [ParamDef |-> def, Err |-> err]

\* LoadEnvFile(filename): the environment afterwards, or the error of
\* os.ReadFile. Only the file "p" can exist.
LoadEnvFile(filename, file, env) ==
    IF filename = <<>> THEN [environ |-> env, err |-> GoNil]
    ELSE IF filename # sP \/ file.nil
    THEN [environ |-> env, err |-> ErrorValue(ErrNoSuchFile)]
    ELSE [environ |-> [n \in (DOMAIN env) \cup (DOMAIN file.val) |->
                          IF n \in DOMAIN file.val THEN file.val[n]
                          ELSE env[n]],
          err |-> GoNil]

VARIABLES
    structDef,        \* the structure ParseCombined fills: its fields
    environ,          \* the process environment
    envFile,          \* the content of the env file "p" (GoNil: no file)
    bindings,         \* argMap, remaining, booleans, flagEnvFields, ...
    pcPc,             \* where ParseCombined is
    idx,              \* the index of the loop it is in
    flagErr,          \* ParseCombined's flagErr
    flagErrOf,        \* for each entry of flagErr the field it is about
    thenRemainingArgs, \* ParseCombined's thenRemainingArgs
    target,           \* the fields' values (GoNil: never set)
    pcRet             \* the error ParseCombined returned

pcVars == <<structDef, environ, envFile, bindings, pcPc, idx, flagErr, flagErrOf,
            thenRemainingArgs, target, pcRet>>

PcIdle ==
    /\ structDef = <<>>
    /\ environ = NoEnv
    /\ envFile = GoNil
    /\ bindings = NoBindings
    /\ pcPc = "idle"
    /\ idx = 0
    /\ flagErr = <<>>
    /\ flagErrOf = <<>>
    /\ thenRemainingArgs = <<>>
    /\ target = EmptyMap
    /\ pcRet = GoNil

cliVars == <<tokVars, pcVars>>
CliIdle == TokIdle /\ PcIdle

\* ---- package commander: parseArgs
\* (mutant: no argument is taken to hold its value)
Contains_Never(s, c) == FALSE

\* strings.Contains(s, c) for a one-character c
Contains(s, c) == \E i \in 1..Len(s) : s[i] = c

sCommand == <<"c", "o", "m", "m", "a", "n", "d">>
sArg1 == <<"a", "r", "g", "1">>
sArg2 == <<"a", "r", "g", "2">>
sFlag1 == <<"f", "l", "a", "g", "1">>
sFlag2 == <<"f", "l", "a", "g", "2">>
sValue1 == <<"v", "a", "l", "u", "e", "1">>
sValue2 == <<"v", "a", "l", "u", "e", "2">>

\* The cases of TestCLIParse.
TestCLIParse ==
    { [input |-> <<sCommand, sArg1, sArg2>>,
       wantCommand |-> sCommand, wantArgs |-> <<sArg1, sArg2>>],
      [input |-> <<sCommand, LongEq(sFlag1, sValue1), LongEq(sFlag2, sValue2),
                   sArg1>>,
       wantCommand |-> sCommand,
       wantArgs |-> <<LongEq(sFlag1, sValue1), LongEq(sFlag2, sValue2), sArg1>>],
      [input |-> <<LongEq(sFlag1, sValue1), sCommand, sArg1>>,
       wantCommand |-> sCommand,
       wantArgs |-> <<LongEq(sFlag1, sValue1), sArg1>>],
      [input |-> <<sCommand, Long(sFlag1), sValue1, Long(sFlag2), sValue2, sArg1>>,
       wantCommand |-> sCommand,
       wantArgs |-> <<Long(sFlag1), sValue1, Long(sFlag2), sValue2, sArg1>>],
      [input |-> <<Long(sFlag1), sValue1, sCommand, Long(sFlag2), sValue2, sArg1>>,
       wantCommand |-> sCommand,
       wantArgs |-> <<Long(sFlag1), sValue1, Long(sFlag2), sValue2, sArg1>>] }

\* The argument lists parseArgs is called with: those of the test and every
\* list of up to MaxArgs + 1 of these tokens.
CmdTokens == {Long(sFoo), LongEq(sFoo, sF1), Short(sB1), sCommand, sF1}
CmdInputs ==
    {tc.input : tc \in TestCLIParse} \cup SeqsUpTo(CmdTokens, MaxArgs + 1)

VARIABLES
    cmdInput,         \* parseArgs' args
    rem,              \* parseArgs' rem
    out,              \* parseArgs' out
    cmdRoles,         \* what each element taken from rem was read as
    cmdPc,            \* where parseArgs is
    parseArgsRet      \* what parseArgs returned

cmdVars == <<cmdInput, rem, out, cmdRoles, cmdPc, parseArgsRet>>

CmdIdle ==
    /\ cmdInput = <<>>
    /\ rem = <<>>
    /\ out = <<>>
    /\ cmdRoles = <<>>
    /\ cmdPc = "idle"
    /\ parseArgsRet = [cmd |-> <<>>, args |-> GoNil]

notGroupVars == <<parVars, cliVars, cmdVars>>
notParVars == <<groupVars, cliVars, cmdVars>>
notCliVars == <<groupVars, parVars, cmdVars>>
notTokVars == <<groupVars, parVars, pcVars, cmdVars>>
notCmdVars == <<groupVars, parVars, cliVars>>

vars == <<groupVars, parVars, cliVars, cmdVars>>

\* ------------------------------------------------------------ helpers
Entry(level, message) == <<level, message>>

\* context.WithCancelCause's cancel(cause): only the first cancellation
\* takes effect; cancel(nil) records context.Canceled as the cause.
CancelCtx(ctx, cause) ==
    IF ctx.made /\ ~ctx.done
    THEN [ctx EXCEPT !.done = TRUE,
                     !.cause = IF cause = Nil THEN Canceled ELSE cause]
    ELSE ctx

\* errors.Is(err, context.Canceled)
IsCanceled(err) == err = Canceled

\* What f(ctx) returns for the i-th runner, by the kind of its function.
FuncResult(kind, i) ==
    CASE kind = "ok" -> Nil
      [] kind = "fail" -> "Error " \o ToString(i)
      [] kind = "canceled" -> Canceled
      [] kind = "waitDone" -> Canceled
      [] kind = "adder" -> Nil

\* Whether f(ctx) can return now: waitDone sits in <-ctx.Done(), and adder
\* has its call of gg.Add to make first.
FuncCanReturn(kind, ctx) ==
    /\ kind = "waitDone" => ctx.done
    /\ kind # "adder"

\* (mutant: the exit line does not tell context.Canceled from a failure)
RunnerExitEntry_NoCanceledLine(err) ==
    IF err = Nil THEN Entry("INFO", LogLineRunnerExited)
    ELSE Entry("ERROR", LogLineRunnerExitedWithError)

\* startRunner: the exit line logged for a runner whose function returned err.
RunnerExitEntry(err) ==
    IF err = Nil THEN Entry("INFO", LogLineRunnerExited)
    ELSE IF IsCanceled(err)
         THEN Entry("DEBUG", LogLineRunnerExitedWithContextCanceledError)
         ELSE Entry("ERROR", LogLineRunnerExitedWithError)

\* (mutant: context.Canceled is handed on like any other error)
RunnerResult_NoFilter(err) == err

\* startRunner: what the wrapper hands to the errgroup for f's result err.
RunnerResult(err) ==
    IF err = Nil THEN Nil
    ELSE IF IsCanceled(err) THEN Nil
    ELSE err

\* (mutant: every non-nil result overwrites the stored error)
ErrGroupRecord_LastWins(eg, err) ==
    IF err # Nil THEN [eg EXCEPT !.err = err] ELSE eg

\* errgroup.Group.Go, on the function's return: errOnce.Do runs for the first
\* non-nil result only; it stores the error ...
ErrGroupRecord(eg, err) ==
    IF err # Nil /\ eg.err = Nil THEN [eg EXCEPT !.err = err] ELSE eg

\* (mutant: the context is cancelled whenever a worker returns)
ErrGroupCancel_OnAnyReturn(eg, ctx, err) == CancelCtx(ctx, err)

\* (mutant: the first error is stored but the context is left alone)
ErrGroupCancel_NoCancel(eg, ctx, err) == ctx

\* ... and cancels the group's context with it as the cause.
ErrGroupCancel(eg, ctx, err) ==
    IF err # Nil /\ eg.err = Nil THEN CancelCtx(ctx, err) ELSE ctx

\* sync.WaitGroup.Done of the errgroup
WgDone(eg) == [eg EXCEPT !.wg = eg.wg - 1]

\* (mutant: the hold-open worker is the only one waited for)
ErrGroupWaitReady_HoldOpenOnly(eg) == holdPc = "done"

\* sync.WaitGroup.Wait of the errgroup returns when the counter is zero.
ErrGroupWaitReady(eg) == eg.wg = 0

\* (mutant: Add never starts the function itself)
NewRunner_NeverStarted(kind, started) ==
    [kind |-> kind, pc |-> "pending", by |-> "-", starts |-> 0, ret |-> Nil,
     log |-> <<>>]

\* A runner as Add appends it: startRunner is called by Add itself when the
\* group is running already, and by Start otherwise (by: "-" until then).
\* starts counts the calls of startRunner for it.
NewRunner(kind, started) ==
    [kind |-> kind,
     pc |-> IF started THEN "spawned" ELSE "pending",
     by |-> IF started THEN "Add" ELSE "-",
     starts |-> IF started THEN 1 ELSE 0,
     ret |-> Nil,
     log |-> <<>>]

\* The context handed to errgroup.WithContext in Start is already done when
\* the caller's context is, or when signal.NotifyContext has fired.
StartCtxDone == parentDone \/ (cancelOnSignals /\ signalled)

\* (mutant: controlMutex.Lock() never blocks)
MutexFree_Always == TRUE

\* controlMutex.Lock() returns at once
MutexFree == controlMutex = "free"

\* ---------------------------------------------------------------- Init
NoErrGroup == [made |-> FALSE, err |-> Nil, wg |-> 0]
NoContext == [made |-> FALSE, done |-> FALSE, cause |-> Nil]
Idle == [pc |-> "idle", arg |-> "-"]

\* NewGroup(options...): WithCancelOnSignals may or may not be given.
InitGroup ==
    /\ cancelOnSignals \in BOOLEAN
    /\ running = FALSE
    /\ isWaiting = FALSE
    /\ runners = <<>>
    /\ controlMutex = "free"
    /\ errGroup = NoErrGroup
    /\ runContext = NoContext
    /\ holdOpen = "nil"
    /\ holdPc = "none"
    /\ monitor = [pc |-> "none", idx |-> 0]
    /\ groupLog = <<>>
    /\ firstFailed = 0
    /\ parentDone = FALSE
    /\ signalled = FALSE
    /\ callers = [c \in Callers |-> Idle]
    /\ calls = 0
    /\ last = [op |-> "-", ret |-> "-"]
    /\ waitResult = "-"

\* parallel.NewGroup(ctx), with ctx cancelled already or not.
InitPar ==
    /\ parParentDone \in BOOLEAN
    /\ ctxDone = parParentDone
    /\ firstErr = Nil
    /\ wg = 0
    /\ funcs = <<>>
    /\ parWait = [pc |-> "idle", ret |-> "-"]
    /\ firstHandled = 0

\* ---------------------------------------------------- the callers' calls
\* Number of functions already handed to Add or about to be.
AddsIssued ==
    Len(runners) + Cardinality({c \in Callers : callers[c].pc = "Add"})

\* A goroutine of the program calls gg.Add(name, f), gg.Start(ctx), gg.Wait()
\* or gg.Run(ctx) while another call holds controlMutex: it sits in
\* controlMutex.Lock(). (Run's first statement is the call of Start.)
CallBlocks(c) ==
    /\ callers[c].pc = "idle"
    /\ ~MutexFree
    /\ calls < MaxCalls
    /\ \E op \in {"Add", "Start", "Wait", "Run"} :
          /\ op = "Add" => AddsIssued < MaxRunners
          /\ callers' = [callers EXCEPT ![c] = [pc |-> op, arg |-> "-"]]
    /\ calls' = calls + 1
    /\ UNCHANGED <<cancelOnSignals, running, isWaiting, runners, controlMutex,
                   errGroup, runContext, holdOpen, holdPc, monitor, groupLog,
                   firstFailed, parentDone, signalled, last, waitResult>>
    /\ UNCHANGED notGroupVars

\* The call of op by c gets controlMutex now: either c calls it while the
\* mutex is free, or c was sitting in controlMutex.Lock() and it became free.
Enters(c, op) ==
    /\ MutexFree
    /\ \/ callers[c].pc = "idle" /\ calls < MaxCalls /\ calls' = calls + 1
       \/ callers[c].pc = op /\ calls' = calls

\* (mutant: the isWaiting check is missing)
AddRegisters_Always == TRUE

\* Group.Add: a function may be registered only before Wait was called.
AddRegisters == ~isWaiting

\* Group.Add, from controlMutex.Lock() to the deferred Unlock(), called
\* with a function of kind k.
AddKind(c, k) ==
    /\ Enters(c, "Add")
    /\ callers[c].pc = "idle" => AddsIssued < MaxRunners
    /\ IF AddRegisters
       THEN /\ runners' = Append(runners, NewRunner(k, running))
            /\ errGroup' = IF running
                           THEN [errGroup EXCEPT !.wg = errGroup.wg + 1]
                           ELSE errGroup
            /\ last' = [op |-> "Add", ret |-> Nil]
       ELSE /\ last' = [op |-> "Add", ret |-> PanicAlreadyWaiting]
            /\ UNCHANGED <<runners, errGroup>>
    /\ callers' = [callers EXCEPT ![c] = Idle]
    /\ UNCHANGED <<cancelOnSignals, running, isWaiting, controlMutex,
                   runContext, holdOpen, holdPc, monitor, groupLog, firstFailed,
                   parentDone, signalled, waitResult>>
    /\ UNCHANGED notGroupVars

Add(c) == \E k \in Kinds : AddKind(c, k)

\* Group.Start, called directly or as the first statement of Group.Run.
Start(c, op) ==
    /\ Enters(c, op)
    /\ IF running
       THEN /\ last' = [op |-> op, ret |-> ErrAlreadyTriggered]
            /\ callers' = [callers EXCEPT ![c] = Idle]
            /\ UNCHANGED <<running, errGroup, runContext, holdOpen, holdPc,
                           runners, groupLog>>
       ELSE /\ running' = TRUE
            /\ errGroup' = [made |-> TRUE, err |-> Nil, wg |-> 1 + Len(runners)]
            /\ runContext' = [made |-> TRUE, done |-> StartCtxDone,
                              cause |-> IF StartCtxDone THEN Canceled ELSE Nil]
            /\ holdOpen' = "open"
            /\ holdPc' = "waiting"
            /\ runners' = [i \in 1..Len(runners) |->
                             [runners[i] EXCEPT !.pc = "spawned", !.by = "Start",
                                                !.starts = @ + 1]]
            /\ groupLog' = Append(groupLog, Entry("INFO", LogLineGroupStarted))
            /\ IF op = "Run"
               THEN /\ callers' = [callers EXCEPT ![c] = [pc |-> "runWait", arg |-> "-"]]
                    /\ last' = last
               ELSE /\ callers' = [callers EXCEPT ![c] = Idle]
                    /\ last' = [op |-> "Start", ret |-> Nil]
    /\ UNCHANGED <<cancelOnSignals, isWaiting, controlMutex, monitor,
                   firstFailed, parentDone, signalled, waitResult>>
    /\ UNCHANGED notGroupVars

\* Group.Wait up to the call of errGroup.Wait(); the mutex stays locked.
WaitBody(c) ==
    /\ IF isWaiting
       THEN /\ last' = [op |-> "Wait", ret |-> ErrAlreadyWaiting]
            /\ callers' = [callers EXCEPT ![c] = Idle]
            /\ UNCHANGED <<isWaiting, holdOpen, monitor, controlMutex>>
       ELSE /\ isWaiting' = TRUE
            /\ IF holdOpen = "nil"
               THEN \* close(gg.holdOpen) of a Group that was never started
                    /\ last' = [op |-> "Wait", ret |-> PanicCloseNil]
                    /\ callers' = [callers EXCEPT ![c] = Idle]
                    /\ UNCHANGED <<holdOpen, monitor, controlMutex>>
               ELSE /\ holdOpen' = "closed"
                    /\ monitor' = [pc |-> "waitCtx", idx |-> 0]
                    /\ controlMutex' = c
                    /\ callers' = [callers EXCEPT ![c] = [pc |-> "errGroupWait", arg |-> "-"]]
                    /\ last' = last
    /\ UNCHANGED <<cancelOnSignals, running, runners, errGroup, runContext,
                   holdPc, groupLog, firstFailed, parentDone, signalled,
                   waitResult>>
    /\ UNCHANGED notGroupVars

WaitBegin(c) ==
    /\ Enters(c, "Wait")
    /\ WaitBody(c)

\* Group.Run: return gg.Wait(), after its call of Start returned nil.
RunWaitBegin(c) ==
    /\ callers[c].pc = "runWait"
    /\ MutexFree
    /\ calls' = calls
    /\ WaitBody(c)

\* errGroup.Wait() returns: all workers are done, the context is cancelled
\* with the group's error as the cause, and the error is handed back.
WaitErrGroupReturns(c) ==
    /\ callers[c].pc = "errGroupWait"
    /\ ErrGroupWaitReady(errGroup)
    /\ runContext' = CancelCtx(runContext, errGroup.err)
    /\ callers' = [callers EXCEPT ![c] = [pc |-> "waitLog", arg |-> errGroup.err]]
    /\ UNCHANGED <<cancelOnSignals, running, isWaiting, runners, controlMutex,
                   errGroup, holdOpen, holdPc, monitor, groupLog, firstFailed,
                   parentDone, signalled, calls, last, waitResult>>
    /\ UNCHANGED notGroupVars

\* Group.Wait: the group's exit line, the deferred Unlock and the return.
GroupExitEntry(firstError) ==
    IF firstError # Nil
    THEN Entry("ERROR", LogLineGroupExitedWithError)
    ELSE Entry("INFO", LogLineGroupExited)

WaitReturn(c) ==
    /\ callers[c].pc = "waitLog"
    /\ groupLog' = Append(groupLog, GroupExitEntry(callers[c].arg))
    /\ controlMutex' = "free"
    /\ callers' = [callers EXCEPT ![c] = Idle]
    /\ last' = [op |-> "Wait", ret |-> callers[c].arg]
    /\ waitResult' = callers[c].arg
    /\ UNCHANGED <<cancelOnSignals, running, isWaiting, runners, errGroup,
                   runContext, holdOpen, holdPc, monitor, firstFailed,
                   parentDone, signalled, calls>>
    /\ UNCHANGED notGroupVars

\* ----------------------------------------------------------- goroutines
\* (mutant: the worker does not wait for holdOpen to be closed)
HoldOpenExit_WithoutClose ==
    /\ holdPc = "waiting"
    /\ holdPc' = "done"
    /\ errGroup' = WgDone(errGroup)
    /\ UNCHANGED <<cancelOnSignals, running, isWaiting, runners, controlMutex,
                   runContext, holdOpen, monitor, groupLog, firstFailed,
                   parentDone, signalled, callers, calls, last,
                   waitResult>>
    /\ UNCHANGED notGroupVars

\* The worker Start adds to keep the errgroup open: <-gg.holdOpen; return nil
HoldOpenExit ==
    /\ holdPc = "waiting"
    /\ holdOpen = "closed"
    /\ holdPc' = "done"
    /\ errGroup' = WgDone(errGroup)
    /\ UNCHANGED <<cancelOnSignals, running, isWaiting, runners, controlMutex,
                   runContext, holdOpen, monitor, groupLog, firstFailed,
                   parentDone, signalled, callers, calls, last,
                   waitResult>>
    /\ UNCHANGED notGroupVars

\* startRunner's goroutine: logs "Runner started" and calls rr.f(ctx).
RunnerStart(i) ==
    /\ runners[i].pc = "spawned"
    /\ runners' = [runners EXCEPT
                     ![i].pc = "running",
                     ![i].log = Append(@, Entry("INFO", LogLineRunnerStarted))]
    /\ UNCHANGED <<cancelOnSignals, running, isWaiting, controlMutex, errGroup,
                   runContext, holdOpen, holdPc, monitor, groupLog, firstFailed,
                   parentDone, signalled, callers, calls, last,
                   waitResult>>
    /\ UNCHANGED notGroupVars

\* rr.f(ctx) returns err; close(rr.stopped).
RunnerReturn(i) ==
    /\ runners[i].pc = "running"
    /\ FuncCanReturn(runners[i].kind, runContext)
    /\ runners' = [runners EXCEPT ![i].pc = "stopped",
                                  ![i].ret = FuncResult(runners[i].kind, i)]
    /\ UNCHANGED <<cancelOnSignals, running, isWaiting, controlMutex, errGroup,
                   runContext, holdOpen, holdPc, monitor, groupLog, firstFailed,
                   parentDone, signalled, callers, calls, last,
                   waitResult>>
    /\ UNCHANGED notGroupVars

\* The exit line, the wrapper's return into the errgroup (errOnce, cancel)
\* and the errgroup's wg.Done().
RunnerExit(i) ==
    LET err == RunnerResult(runners[i].ret) IN
    /\ runners[i].pc = "stopped"
    /\ runners' = [runners EXCEPT
                     ![i].pc = "done",
                     ![i].log = Append(@, RunnerExitEntry(runners[i].ret))]
    /\ errGroup' = WgDone(ErrGroupRecord(errGroup, err))
    /\ runContext' = ErrGroupCancel(errGroup, runContext, err)
    /\ firstFailed' = IF err # Nil /\ firstFailed = 0 THEN i ELSE firstFailed
    /\ UNCHANGED <<cancelOnSignals, running, isWaiting, controlMutex, holdOpen,
                   holdPc, monitor, groupLog, parentDone, signalled, callers, calls, last,
                   waitResult>>
    /\ UNCHANGED notGroupVars

\* The goroutine Wait starts: <-gg.runContext.Done()
MonitorCtxDone ==
    /\ monitor.pc = "waitCtx"
    /\ runContext.done
    /\ monitor' = [pc |-> "loop", idx |-> 1]
    /\ UNCHANGED <<cancelOnSignals, running, isWaiting, runners, controlMutex,
                   errGroup, runContext, holdOpen, holdPc, groupLog, firstFailed,
                   parentDone, signalled, callers, calls, last,
                   waitResult>>
    /\ UNCHANGED notGroupVars

\* One turn of its loop over gg.runners: <-rr.stopped, then waiting.Range
\* logs one DEBUG line per stored name. waiting.Delete(rr) is given the
\* *runner, not the name stored, so every name stored so far is still there.
WaitingLines(n) == [j \in 1..n |-> Entry("DEBUG", LogLineWaitingForRunner)]

MonitorRunnerStopped ==
    /\ monitor.pc = "loop"
    /\ monitor.idx <= Len(runners)
    /\ runners[monitor.idx].pc \in {"stopped", "done"}
    /\ groupLog' = groupLog \o WaitingLines(monitor.idx)
    /\ monitor' = [monitor EXCEPT !.idx = monitor.idx + 1]
    /\ UNCHANGED <<cancelOnSignals, running, isWaiting, runners, controlMutex,
                   errGroup, runContext, holdOpen, holdPc, firstFailed,
                   parentDone, signalled, callers, calls, last,
                   waitResult>>
    /\ UNCHANGED notGroupVars

MonitorAllExited ==
    /\ monitor.pc = "loop"
    /\ monitor.idx > Len(runners)
    /\ groupLog' = Append(groupLog, Entry("INFO", LogLineAllRunnersExited))
    /\ monitor' = [monitor EXCEPT !.pc = "done"]
    /\ UNCHANGED <<cancelOnSignals, running, isWaiting, runners, controlMutex,
                   errGroup, runContext, holdOpen, holdPc, firstFailed,
                   parentDone, signalled, callers, calls, last,
                   waitResult>>
    /\ UNCHANGED notGroupVars

\* ---------------------------------------------------------- environment
\* The caller cancels the context it handed (or will hand) to Start.
ParentCancel ==
    /\ ~parentDone
    /\ parentDone' = TRUE
    /\ runContext' = CancelCtx(runContext, Canceled)
    /\ UNCHANGED <<cancelOnSignals, running, isWaiting, runners, controlMutex,
                   errGroup, holdOpen, holdPc, monitor, groupLog, firstFailed,
                   signalled, callers, calls, last,
                   waitResult>>
    /\ UNCHANGED notGroupVars

\* One of the signals given to WithCancelOnSignals arrives while
\* signal.NotifyContext (set up by Start) is listening.
Signal ==
    /\ cancelOnSignals
    /\ running
    /\ ~signalled
    /\ signalled' = TRUE
    /\ runContext' = CancelCtx(runContext, Canceled)
    /\ UNCHANGED <<cancelOnSignals, running, isWaiting, runners, controlMutex,
                   errGroup, holdOpen, holdPc, monitor, groupLog, firstFailed,
                   parentDone, callers, calls, last,
                   waitResult>>
    /\ UNCHANGED notGroupVars

Next ==
    \/ \E c \in Callers : CallBlocks(c)
    \/ \E c \in Callers : Add(c)
    \/ \E c \in Callers : \E op \in {"Start", "Run"} : Start(c, op)
    \/ \E c \in Callers : WaitBegin(c)
    \/ \E c \in Callers : RunWaitBegin(c)
    \/ \E c \in Callers : WaitErrGroupReturns(c)
    \/ \E c \in Callers : WaitReturn(c)
    \/ HoldOpenExit
    \/ \E i \in 1..Len(runners) : RunnerStart(i)
    \/ \E i \in 1..Len(runners) : RunnerReturn(i)
    \/ \E i \in 1..Len(runners) : RunnerExit(i)
    \/ MonitorCtxDone
    \/ MonitorRunnerStopped
    \/ MonitorAllExited
    \/ ParentCancel
    \/ Signal

\* The run group, with package parallel's group left as constructed.
Init == InitGroup /\ InitPar /\ ~parParentDone /\ CliIdle /\ CmdIdle

Spec == Init /\ [][Next]_vars

\* The executions in which the context given to Start is never cancelled and
\* no signal arrives, with every goroutine that can take a step scheduled
\* eventually: the worker holding the errgroup open, the runners' goroutines
\* (a function handed to Add returns once nothing blocks it) and the caller
\* whose errGroup.Wait() can return.
NextUncancelled ==
    \/ \E c \in Callers : CallBlocks(c)
    \/ \E c \in Callers : Add(c)
    \/ \E c \in Callers : \E op \in {"Start", "Run"} : Start(c, op)
    \/ \E c \in Callers : WaitBegin(c)
    \/ \E c \in Callers : RunWaitBegin(c)
    \/ \E c \in Callers : WaitErrGroupReturns(c)
    \/ \E c \in Callers : WaitReturn(c)
    \/ HoldOpenExit
    \/ \E i \in 1..Len(runners) : RunnerStart(i)
    \/ \E i \in 1..Len(runners) : RunnerReturn(i)
    \/ \E i \in 1..Len(runners) : RunnerExit(i)
    \/ MonitorCtxDone
    \/ MonitorRunnerStopped
    \/ MonitorAllExited

GoroutineStep ==
    \/ HoldOpenExit
    \/ \E i \in 1..Len(runners) : RunnerStart(i)
    \/ \E i \in 1..Len(runners) : RunnerReturn(i)
    \/ \E i \in 1..Len(runners) : RunnerExit(i)
    \/ \E c \in Callers : WaitErrGroupReturns(c)
    \/ \E c \in Callers : WaitReturn(c)

FairSpec == Init /\ [][NextUncancelled]_vars /\ WF_vars(GoroutineStep)

\* ---- a runner that calls Add on its own group
\* gg.Add(name, f) is called with a function that itself calls gg.Add.
AddReentrant(c) == AddKind(c, "adder")

\* The function of an adder runs: its call of gg.Add gets controlMutex (it
\* sits in controlMutex.Lock() as long as the mutex is held), registers and
\* starts a function of kind ok or panics as Add does, and the function then
\* returns nil and rr.stopped is closed.
RunnerAdd(i) ==
    /\ runners[i].kind = "adder"
    /\ runners[i].pc = "running"
    /\ MutexFree
    /\ IF AddRegisters
       THEN /\ runners' = Append([runners EXCEPT ![i].pc = "stopped",
                                                  ![i].ret = Nil],
                                 NewRunner("ok", running))
            /\ errGroup' = [errGroup EXCEPT !.wg = errGroup.wg + 1]
       ELSE /\ runners' = [runners EXCEPT ![i].pc = "panicked",
                                          ![i].ret = PanicAlreadyWaiting]
            /\ UNCHANGED errGroup
    /\ UNCHANGED <<cancelOnSignals, running, isWaiting, controlMutex,
                   runContext, holdOpen, holdPc, monitor, groupLog, firstFailed,
                   parentDone, signalled, callers, calls, last, waitResult>>
    /\ UNCHANGED notGroupVars

\* The executions in which every function handed to Add by the callers is
\* such a function.
NextReentrant ==
    \/ \E c \in Callers : CallBlocks(c)
    \/ \E c \in Callers : AddReentrant(c)
    \/ \E c \in Callers : \E op \in {"Start", "Run"} : Start(c, op)
    \/ \E c \in Callers : WaitBegin(c)
    \/ \E c \in Callers : RunWaitBegin(c)
    \/ \E c \in Callers : WaitErrGroupReturns(c)
    \/ \E c \in Callers : WaitReturn(c)
    \/ HoldOpenExit
    \/ \E i \in 1..Len(runners) : RunnerStart(i)
    \/ \E i \in 1..Len(runners) : RunnerAdd(i)
    \/ \E i \in 1..Len(runners) : RunnerReturn(i)
    \/ \E i \in 1..Len(runners) : RunnerExit(i)
    \/ MonitorCtxDone
    \/ MonitorRunnerStopped
    \/ MonitorAllExited
    \/ ParentCancel
    \/ Signal

SpecReentrant == Init /\ [][NextReentrant]_vars

\* ------------------------------------------------------------ run group
Failing == {i \in 1..Len(runners) : runners[i].kind = "fail"}
Returned(i) == runners[i].pc \in {"stopped", "done"}
ParentNeverCancelled == ~parentDone /\ ~signalled
WaitReturned == waitResult # "-"

C1_Safety ==
    (Cardinality(Failing) = 1 /\ ParentNeverCancelled) =>
        \A i \in Failing :
            /\ runners[i].pc = "done" =>
                   /\ runContext.done
                   /\ runContext.cause = FuncResult("fail", i)
                   /\ errGroup.err = FuncResult("fail", i)
            /\ WaitReturned => waitResult = FuncResult("fail", i)

C1_Failed ==
    /\ Cardinality(Failing) = 1
    /\ ParentNeverCancelled
    /\ \A i \in Failing : Returned(i)

C1_Released == \A j \in 1..Len(runners) : Returned(j)

\* C1: with exactly one runner returning an error other than
\* context.Canceled and the context given to Start never cancelled (by the
\* caller or by a signal), that runner's exit cancels the run context with
\* its error as the cause and Wait returns exactly that error (C1_Safety);
\* and once that runner's function has returned, every runner, those
\* blocked on ctx.Done() included, returns (C1_Failed ~> C1_Released).
C1_SingleErrorCancelsAndIsReturned ==
    /\ []C1_Safety
    /\ (C1_Failed ~> C1_Released)

C1_Witness ==
    /\ Cardinality(Failing) = 1
    /\ ParentNeverCancelled
    /\ \E j \in 1..Len(runners) :
          runners[j].kind = "waitDone" /\ runners[j].pc = "done"
    /\ waitResult \in {FuncResult("fail", i) : i \in Failing}

\* C2: when several runners return errors other than context.Canceled, in
\* any interleaving, Wait returns the error of the runner that was first to
\* hand its error to the errgroup: one of the errors returned, never nil.
C2_FirstRecordedErrorWins ==
    (WaitReturned /\ Failing # {}) =>
        /\ firstFailed \in Failing
        /\ waitResult = runners[firstFailed].ret
        /\ waitResult # Nil
        /\ waitResult \in {FuncResult("fail", i) : i \in Failing}

C2_Witness ==
    /\ WaitReturned
    /\ Cardinality(Failing) >= 2
    /\ firstFailed = 2
    /\ waitResult = FuncResult("fail", 2)

\* C3: while no runner returns an error and the context given to Start is
\* never cancelled (by the caller or by a signal), the run context is not
\* cancelled before every runner's function has returned, and Wait
\* returns nil.
C3_NoErrorNoCancellation ==
    (Failing = {} /\ ParentNeverCancelled) =>
        /\ runContext.done => \A i \in 1..Len(runners) : Returned(i)
        /\ WaitReturned => waitResult = Nil

C3_Witness ==
    /\ Failing = {}
    /\ ParentNeverCancelled
    /\ Len(runners) >= 2
    /\ \E i \in 1..Len(runners) : runners[i].kind = "canceled"
    /\ WaitReturned
    /\ waitResult = Nil
    /\ runContext.done

\* C4: errGroup.Wait() has returned inside Wait, or Wait has returned its
\* result, only when every registered runner is done, those started by Add
\* after Start included.
C4_WaitReturnsAfterAllRunners ==
    (WaitReturned \/ \E c \in Callers : callers[c].pc = "waitLog") =>
        \A i \in 1..Len(runners) : runners[i].pc = "done"

C4_Witness ==
    /\ WaitReturned
    /\ runContext.cause = Canceled
    /\ \E i \in 1..Len(runners) :
          runners[i].by = "Add" /\ runners[i].kind = "ok" /\ runners[i].pc = "done"

\* C5 (as claimed): when a configured signal has been received, the parent
\* was not cancelled, a runner that waits for its context was released by
\* the signal and no runner fails, the error errGroup.Wait() hands to Wait,
\* which Wait returns, is context.Canceled.
C5_SignalReturnsCanceled ==
    [][(/\ signalled
        /\ ~parentDone
        /\ Failing = {}
        /\ \E i \in 1..Len(runners) :
              runners[i].kind = "waitDone" /\ runners[i].pc = "done"
        /\ \E c \in Callers :
              callers[c].pc = "errGroupWait" /\ callers'[c].pc = "waitLog")
       => \E c \in Callers :
              callers'[c].pc = "waitLog" /\ callers'[c].arg = Canceled]_vars

\* C6 (as claimed): a call of Wait made when Wait was called before never
\* has to wait: controlMutex is free for it.
C6_SecondWaitDoesNotBlock ==
    \A c \in Callers :
        (callers[c].pc = "Wait" /\ isWaiting) => MutexFree

\* C7: once isWaiting is set no step registers a runner, and a call of Add
\* that gets the mutex panics with "group is already waiting", leaving the
\* runner list and the errgroup as they are.
C7_NoAddOnceWaiting ==
    [][isWaiting =>
        /\ Len(runners') = Len(runners)
        /\ (\E c \in Callers : Add(c)) =>
              /\ last' = [op |-> "Add", ret |-> PanicAlreadyWaiting]
              /\ runners' = runners
              /\ errGroup' = errGroup]_vars

C7_Witness ==
    /\ isWaiting
    /\ running
    /\ last = [op |-> "Add", ret |-> PanicAlreadyWaiting]

\* C8: a runner whose function returned context.Canceled logs the DEBUG line
\* "Runner exited with context canceled"; context.Canceled is never the
\* error the errgroup holds nor the one Wait returns; and the run context is
\* cancelled only by the caller's context, a signal, the exit of a failing
\* runner or the return of errGroup.Wait().
C8_CanceledIsCleanStop ==
    /\ \A i \in 1..Len(runners) :
          (runners[i].pc = "done" /\ runners[i].ret = Canceled) =>
              runners[i].log =
                  << Entry("INFO", LogLineRunnerStarted),
                     Entry("DEBUG", LogLineRunnerExitedWithContextCanceledError) >>
    /\ errGroup.err # Canceled
    /\ waitResult # Canceled
    /\ runContext.done =>
          \/ parentDone
          \/ signalled
          \/ \E i \in Failing : runners[i].pc = "done"
          \/ WaitReturned
          \/ \E c \in Callers : callers[c].pc = "waitLog"

C8_Witness ==
    /\ \E i \in 1..Len(runners) :
          runners[i].kind = "canceled" /\ runners[i].pc = "done"
    /\ \E i \in 1..Len(runners) : runners[i].pc = "running"
    /\ runContext.made
    /\ ~runContext.done

\* ------------------------------------------------------- parallel.Group
\* What the i-th function returns.
ParFuncResult(kind, i) ==
    CASE kind = "ok" -> Nil
      [] kind = "fail" -> "Error " \o ToString(i)
      [] kind = "waitNil" -> Nil
      [] kind = "waitErr" -> Canceled
      [] kind = "waitFail" -> "Error " \o ToString(i)

ParFuncCanReturn(kind, done) == kind \in {"waitNil", "waitErr", "waitFail"} => done

\* context.Context.Err of the group's context
CtxErr(done) == IF done THEN Canceled ELSE Nil

\* Group.Go: g.wg.Add(1) and the goroutine is started.
Go ==
    /\ parWait.pc = "idle"
    /\ Len(funcs) < MaxGo
    /\ \E k \in ParKinds :
          funcs' = Append(funcs, [kind |-> k, pc |-> "running", err |-> Nil])
    /\ wg' = wg + 1
    /\ UNCHANGED <<ctxDone, parParentDone, firstErr, parWait, firstHandled>>
    /\ UNCHANGED notParVars

\* The goroutine of Go: f(g.ctx) returns err.
FuncReturn(i) ==
    /\ funcs[i].pc = "running"
    /\ ParFuncCanReturn(funcs[i].kind, ctxDone)
    /\ funcs' = [funcs EXCEPT ![i].pc = "returned",
                              ![i].err = ParFuncResult(funcs[i].kind, i)]
    /\ UNCHANGED <<ctxDone, parParentDone, firstErr, wg, parWait, firstHandled>>
    /\ UNCHANGED notParVars

\* handleErr, the locked section: the first error is kept.
RecordFirst(cur, err) == IF cur = Nil THEN err ELSE cur

HandleErrRecord(i) ==
    /\ funcs[i].pc = "returned"
    /\ funcs[i].err # Nil
    /\ firstErr' = RecordFirst(firstErr, funcs[i].err)
    /\ firstHandled' = IF firstHandled = 0 THEN i ELSE firstHandled
    /\ funcs' = [funcs EXCEPT ![i].pc = "recorded"]
    /\ UNCHANGED <<ctxDone, parParentDone, wg, parWait>>
    /\ UNCHANGED notParVars

\* (mutant: g.cancel() is called before the locked section)
HandleErrCancel_BeforeRecord(i) ==
    /\ funcs[i].pc \in {"returned", "recorded"}
    /\ funcs[i].err # Nil
    /\ ctxDone' = TRUE
    /\ funcs' = [funcs EXCEPT
                   ![i].pc = IF @ = "recorded" THEN "cancelled" ELSE @]
    /\ UNCHANGED <<parParentDone, firstErr, wg, parWait, firstHandled>>
    /\ UNCHANGED notParVars

\* handleErr, after the unlock: g.cancel()
HandleErrCancel(i) ==
    /\ funcs[i].pc = "recorded"
    /\ ctxDone' = TRUE
    /\ funcs' = [funcs EXCEPT ![i].pc = "cancelled"]
    /\ UNCHANGED <<parParentDone, firstErr, wg, parWait, firstHandled>>
    /\ UNCHANGED notParVars

\* The goroutine's deferred g.wg.Done(), after a nil result or handleErr.
FuncDone(i) ==
    /\ \/ funcs[i].pc = "returned" /\ funcs[i].err = Nil
       \/ funcs[i].pc = "cancelled"
    /\ funcs' = [funcs EXCEPT ![i].pc = "done"]
    /\ wg' = wg - 1
    /\ UNCHANGED <<ctxDone, parParentDone, firstErr, parWait, firstHandled>>
    /\ UNCHANGED notParVars

\* Group.Wait is called: g.wg.Wait()
ParWaitCall ==
    /\ parWait.pc = "idle"
    /\ parWait' = [parWait EXCEPT !.pc = "wgWait"]
    /\ UNCHANGED <<ctxDone, parParentDone, firstErr, wg, funcs, firstHandled>>
    /\ UNCHANGED notParVars

\* (mutant: the context's error is not consulted)
ParWaitResult_FirstErrOnly(err, done) == err

\* Group.Wait after g.wg.Wait(): the first error, else the context's error.
\* Wait does not call g.cancel.
ParWaitResult(err, done) == IF err # Nil THEN err ELSE CtxErr(done)

ParWaitReturn ==
    /\ parWait.pc = "wgWait"
    /\ wg = 0
    /\ parWait' = [pc |-> "returned", ret |-> ParWaitResult(firstErr, ctxDone)]
    /\ UNCHANGED <<ctxDone, parParentDone, firstErr, wg, funcs, firstHandled>>
    /\ UNCHANGED notParVars

\* The caller cancels the context it gave to NewGroup.
ParParentCancel ==
    /\ ~parParentDone
    /\ parParentDone' = TRUE
    /\ ctxDone' = TRUE
    /\ UNCHANGED <<firstErr, wg, funcs, parWait, firstHandled>>
    /\ UNCHANGED notParVars

NextPar ==
    \/ Go
    \/ \E i \in 1..Len(funcs) : FuncReturn(i)
    \/ \E i \in 1..Len(funcs) : HandleErrRecord(i)
    \/ \E i \in 1..Len(funcs) : HandleErrCancel(i)
    \/ \E i \in 1..Len(funcs) : FuncDone(i)
    \/ ParWaitCall
    \/ ParWaitReturn
    \/ ParParentCancel

\* package parallel's group, with the run group left as constructed.
ParInit == InitPar /\ InitGroup /\ ~cancelOnSignals /\ CliIdle /\ CmdIdle

SpecPar == ParInit /\ [][NextPar]_vars

\* ------------------------------------------------ parallel.Group, claims
AnyFuncErr == \E i \in 1..Len(funcs) : funcs[i].err # Nil

\* C9: Wait returns the first recorded error if some function returned a
\* non-nil error; otherwise the context's error: nil if the parent context
\* was not cancelled, context.Canceled if it was.
C9_ParWaitResult ==
    [][(parWait.pc = "wgWait" /\ parWait'.pc = "returned") =>
          parWait'.ret =
              IF AnyFuncErr THEN funcs[firstHandled].err
              ELSE IF parParentDone THEN Canceled ELSE Nil]_vars

C9_Witness ==
    /\ parWait = [pc |-> "returned", ret |-> Canceled]
    /\ Len(funcs) >= 2
    /\ ~AnyFuncErr
    /\ parParentDone

\* C10 (as claimed): once Wait has returned the derived context is cancelled.
C10_CtxCancelledAfterWait ==
    parWait.pc = "returned" => ctxDone

\* C11: the log entries written with a runner's name are none before its
\* goroutine runs, then "Runner started" (INFO) alone while its function
\* runs, and once it has exited exactly "Runner started" followed by the one
\* exit entry its return value selects: nil "Runner exited" (INFO),
\* context.Canceled "Runner exited with context canceled" (DEBUG), any other
\* error "Runner exited with error" (ERROR), whether or not that error is
\* the one Wait returns.
C11_RunnerLogEntries ==
    \A i \in 1..Len(runners) :
        LET rr == runners[i]
            started == Entry("INFO", LogLineRunnerStarted)
        IN  /\ rr.pc \in {"pending", "spawned"} => rr.log = <<>>
            /\ rr.pc \in {"running", "stopped"} => rr.log = <<started>>
            /\ rr.pc = "done" =>
                  /\ Len(rr.log) = 2
                  /\ rr.log[1] = started
                  /\ rr.ret = Nil =>
                        rr.log[2] = Entry("INFO", LogLineRunnerExited)
                  /\ rr.ret = Canceled =>
                        rr.log[2] =
                          Entry("DEBUG",
                                LogLineRunnerExitedWithContextCanceledError)
                  /\ rr.ret \notin {Nil, Canceled} =>
                        rr.log[2] = Entry("ERROR", LogLineRunnerExitedWithError)

C11_Witness ==
    /\ WaitReturned
    /\ \E i, j \in 1..Len(runners) :
          /\ runners[i].pc = "done" /\ runners[i].ret = waitResult
          /\ runners[j].pc = "done" /\ runners[j].ret \notin {Nil, Canceled}
          /\ runners[j].ret # waitResult
          /\ runners[j].log[2] = Entry("ERROR", LogLineRunnerExitedWithError)

\* --------------------------------------------------------- parseFlags
\* strings.HasPrefix(arg, "-")
IsFlagArg(arg) == HasPrefix(arg, Dash)

\* (mutant: only one leading dash is stripped)
TrimDashes_One(arg) == TrimPrefix(arg, Dash)

\* arg = strings.TrimPrefix(arg, "-"), twice
TrimDashes(arg) == TrimPrefix(TrimPrefix(arg, Dash), Dash)

\* (mutant: a boolean flag looks at its next token even when it is a flag)
BoolTakesDefault_AtEndOnly(rest) == Len(rest) = 0

\* len(src) == 0 || strings.HasPrefix(src[0], "-"), src being what follows
\* the boolean flag
BoolTakesDefault(rest) == Len(rest) = 0 \/ HasPrefix(rest[1], Dash)

\* lower == boolTrue || lower == boolFalse
IsBoolValue(lower) == lower = boolTrue \/ lower = boolFalse

\* (mutant: the element that stops the parsing is dropped)
RemainingFrom_SkipFirst(s) == Tail(s)

\* return flagMap, src, nil: the remaining arguments are src itself
RemainingFrom(s) == s

\* The body of "if _, ok := booleans[arg]; ok { ... }" for the flag arg, rest
\* being the elements after it and m the flag map. In the runner package the
\* first branch does not "continue", and src[0] is then read.
BooleanFlag(variant, arg, rest, m) ==
    IF variant = "cliconf"
    THEN IF BoolTakesDefault(rest)
         THEN [flagMap |-> MapPut(m, arg, boolTrue), src |-> rest,
               consumed |-> FALSE, panic |-> FALSE]
         ELSE IF IsBoolValue(ToLower(rest[1]))
              THEN [flagMap |-> MapPut(m, arg, ToLower(rest[1])),
                    src |-> Tail(rest), consumed |-> TRUE, panic |-> FALSE]
              ELSE [flagMap |-> m, src |-> rest,
                    consumed |-> FALSE, panic |-> FALSE]
    ELSE LET m1 == IF BoolTakesDefault(rest)
                   THEN MapPut(m, arg, boolTrue) ELSE m
         IN  IF Len(rest) = 0
             THEN [flagMap |-> m1, src |-> rest,
                   consumed |-> FALSE, panic |-> TRUE]
             ELSE IF IsBoolValue(ToLower(rest[1]))
                  THEN [flagMap |-> MapPut(m1, arg, ToLower(rest[1])),
                        src |-> Tail(rest), consumed |-> TRUE,
                        panic |-> FALSE]
                  ELSE [flagMap |-> m1, src |-> rest,
                        consumed |-> FALSE, panic |-> FALSE]

\* The loop is at its head with a flag in front of it.
AtFlag == tokPc = "loop" /\ Len(src) > 0 /\ IsFlagArg(src[1])

\* for len(src) > 0 fails: return flagMap, []string{}, nil
ParseFlagsDone ==
    /\ tokPc = "loop"
    /\ Len(src) = 0
    /\ tokPc' = "returned"
    /\ parseFlagsRet' = [NoRet EXCEPT !.flagMap = Some(flagMap),
                                      !.remainingArgs = Some(<<>>)]
    /\ UNCHANGED <<impl, booleans, args, src, flagMap, roles>>
    /\ UNCHANGED notTokVars

\* The first element without a leading dash: the rest are plain args.
ParseFlagsRemaining ==
    /\ tokPc = "loop"
    /\ Len(src) > 0
    /\ ~IsFlagArg(src[1])
    /\ tokPc' = "returned"
    /\ parseFlagsRet' = [NoRet EXCEPT !.flagMap = Some(flagMap),
                                      !.remainingArgs = Some(RemainingFrom(src))]
    /\ UNCHANGED <<impl, booleans, args, src, flagMap, roles>>
    /\ UNCHANGED notTokVars

\* A known boolean flag.
ParseFlagsBoolean ==
    /\ AtFlag
    /\ TrimDashes(src[1]) \in booleans
    /\ LET r == BooleanFlag(impl, TrimDashes(src[1]), Tail(src), flagMap) IN
         /\ flagMap' = r.flagMap
         /\ src' = r.src
         /\ roles' = roles \o (IF r.consumed THEN <<"flag", "value">>
                                             ELSE <<"flag">>)
         /\ tokPc' = IF r.panic THEN "panicked" ELSE "loop"
         /\ parseFlagsRet' = IF r.panic
                             THEN [NoRet EXCEPT !.panic = PanicIndexOutOfRange]
                             ELSE parseFlagsRet
    /\ UNCHANGED <<impl, booleans, args>>
    /\ UNCHANGED notTokVars

\* eqSplit := strings.SplitN(arg, "=", 2) has two parts.
ParseFlagsEquals ==
    /\ AtFlag
    /\ TrimDashes(src[1]) \notin booleans
    /\ LET eqSplit == SplitN(TrimDashes(src[1]), "=") IN
         /\ Len(eqSplit) = 2
         /\ flagMap' = MapPut(flagMap, eqSplit[1], eqSplit[2])
    /\ src' = Tail(src)
    /\ roles' = Append(roles, "flag")
    /\ UNCHANGED <<impl, booleans, args, tokPc, parseFlagsRet>>
    /\ UNCHANGED notTokVars

\* (mutant: a flag without a value is given the empty string)
ParseFlagsNoValue_EmptyValue ==
    /\ AtFlag
    /\ TrimDashes(src[1]) \notin booleans
    /\ Len(SplitN(TrimDashes(src[1]), "=")) # 2
    /\ Len(Tail(src)) = 0
    /\ flagMap' = MapPut(flagMap, TrimDashes(src[1]), <<>>)
    /\ src' = Tail(src)
    /\ roles' = Append(roles, "flag")
    /\ UNCHANGED <<impl, booleans, args, tokPc, parseFlagsRet>>
    /\ UNCHANGED notTokVars

\* No "=" and nothing after the flag: the error return.
ParseFlagsNoValue ==
    /\ AtFlag
    /\ TrimDashes(src[1]) \notin booleans
    /\ Len(SplitN(TrimDashes(src[1]), "=")) # 2
    /\ Len(Tail(src)) = 0
    /\ tokPc' = "returned"
    /\ parseFlagsRet' =
           [NoRet EXCEPT !.err = FlagHasNoValue(impl, TrimDashes(src[1]))]
    /\ src' = Tail(src)
    /\ roles' = Append(roles, "flag")
    /\ UNCHANGED <<impl, booleans, args, flagMap>>
    /\ UNCHANGED notTokVars

\* No "=": the next element is the value.
ParseFlagsValue ==
    /\ AtFlag
    /\ TrimDashes(src[1]) \notin booleans
    /\ Len(SplitN(TrimDashes(src[1]), "=")) # 2
    /\ Len(Tail(src)) > 0
    /\ flagMap' = MapPut(flagMap, TrimDashes(src[1]), src[2])
    /\ src' = Tail(Tail(src))
    /\ roles' = roles \o <<"flag", "value">>
    /\ UNCHANGED <<impl, booleans, args, tokPc, parseFlagsRet>>
    /\ UNCHANGED notTokVars

\* One pass of parseFlags' loop, or its return.
ParseFlagsStep ==
    \/ ParseFlagsDone
    \/ ParseFlagsRemaining
    \/ ParseFlagsBoolean
    \/ ParseFlagsEquals
    \/ ParseFlagsNoValue
    \/ ParseFlagsValue

\* parseFlags(src, booleans) called as TestCommandFlagParse calls it, in
\* either package.
TokInit ==
    /\ InitGroup /\ ~cancelOnSignals
    /\ InitPar /\ ~parParentDone
    /\ impl \in {"cliconf", "runner"}
    /\ \E in \in TokInputs :
          /\ booleans = in.booleans
          /\ args = in.src
          /\ src = in.src
    /\ flagMap = EmptyMap
    /\ roles = <<>>
    /\ tokPc = "loop"
    /\ parseFlagsRet = NoRet
    /\ PcIdle
    /\ CmdIdle

NextTok == ParseFlagsStep

SpecTok == TokInit /\ [][NextTok]_vars

\* ------------------------------------------------- the tokenizer, claims
\* A token as it is typed: without its one or two leading dashes, and the
\* name in it (what stands before the first "=").
Undashed(tok) ==
    IF HasPrefix(tok, <<"-", "-">>) THEN SubSeq(tok, 3, Len(tok))
    ELSE IF HasPrefix(tok, <<"-">>) THEN SubSeq(tok, 2, Len(tok))
    ELSE tok
HasEquals(tok) == \E i \in 1..Len(tok) : tok[i] = "="
NameOf(tok) ==
    LET u == Undashed(tok) IN
    IF HasEquals(u) THEN SubSeq(u, 1, Index(u, "=") - 1) ELSE u
ValueOf(tok) ==
    LET u == Undashed(tok) IN SubSeq(u, Index(u, "=") + 1, Len(u))

CliconfReturned ==
    impl = "cliconf" /\ tokPc = "returned" /\ parseFlagsRet.err.nil

\* C12: when cliconf.parseFlags returns without error, the remaining
\* arguments are the input from its first element that neither starts with
\* "-" nor was consumed as a flag's value, unchanged and in order up to the
\* end of the input, flag-like elements included; and every name in the flag
\* map comes from an element before that point that was read as a flag.
C12_RemainingArgs ==
    CliconfReturned =>
        LET k == Len(roles)
            remArgs == parseFlagsRet.remainingArgs.val
            fm == parseFlagsRet.flagMap.val
        IN  /\ k <= Len(args)
            /\ remArgs = SubSeq(args, k + 1, Len(args))
            /\ \A j \in 1..k : ~HasPrefix(args[j], Dash) => roles[j] = "value"
            /\ k < Len(args) => ~HasPrefix(args[k + 1], Dash)
            /\ \A n \in DOMAIN fm :
                  \E j \in 1..k : roles[j] = "flag" /\ n = NameOf(args[j])

C12_Witness ==
    /\ CliconfReturned
    /\ Len(roles) >= 1
    /\ LET remArgs == parseFlagsRet.remainingArgs.val IN
         /\ Len(remArgs) = 2
         /\ remArgs[2] = Long(sFoo)
         /\ sFoo \notin DOMAIN parseFlagsRet.flagMap.val

\* C13: in cliconf.parseFlags a flag whose name is not boolean records
\* name -> value for "--name=value" (the value being all that follows the
\* first "=") and consumes that element only; without "=" and with a next
\* element it records name -> next element and consumes both; the name is
\* the token without its one or two leading dashes. The input
\* ["--foo","foo","--bar=bar"] gives {foo:"foo", bar:"bar"} and no remaining
\* arguments.
C13_NonBooleanFlag ==
    [][(AtFlag /\ impl = "cliconf" /\ NameOf(src[1]) \notin booleans) =>
          /\ HasEquals(Undashed(src[1])) =>
                /\ flagMap' = MapPut(flagMap, NameOf(src[1]), ValueOf(src[1]))
                /\ src' = Tail(src)
          /\ (~HasEquals(Undashed(src[1])) /\ Len(src) >= 2) =>
                /\ flagMap' = MapPut(flagMap, Undashed(src[1]), src[2])
                /\ src' = Tail(Tail(src))
          /\ (tokPc' = "returned" /\ args = <<Long(sFoo), sFoo, LongEq(sBar, sBar)>>) =>
                /\ parseFlagsRet'.flagMap.val = (sFoo :> sFoo) @@ (sBar :> sBar)
                /\ parseFlagsRet'.remainingArgs.val = <<>>
                /\ parseFlagsRet'.err.nil]_vars

C13_Witness ==
    /\ CliconfReturned
    /\ args = <<Long(sFoo), sFoo, LongEq(sBar, sBar)>>
    /\ parseFlagsRet.flagMap.val = (sFoo :> sFoo) @@ (sBar :> sBar)
    /\ parseFlagsRet.remainingArgs.val = <<>>
\* The second case of TestCommandFlagParse.
BooleansCase ==
    <<Long(sFoo), sFoo, LongEq(sBar, sBar), Long(sB1), LongEq(sB2, boolTrue),
      Long(sB3), boolTrue, sF1, sF2>>

\* C14: in cliconf.parseFlags a known boolean flag given without "=" is set
\* to "true" without consuming anything when nothing follows it or the next
\* element starts with "-"; takes the next element, lower-cased, as its value
\* and consumes it when that element is "true" or "false" in any case; and
\* otherwise leaves the next element in place and goes on without an error.
\* With booleans {b1,b2,b3} the input of the test gives b1=b2=b3="true" and
\* the remaining arguments [f1,f2].
C14_BooleanFlag ==
    [][(AtFlag /\ impl = "cliconf" /\ Undashed(src[1]) \in booleans) =>
          LET name == Undashed(src[1])
              rest == Tail(src)
              atEnd == Len(rest) = 0
              isBool == ~atEnd /\ ToLower(rest[1]) \in {boolTrue, boolFalse}
              isFlag == ~atEnd /\ HasPrefix(rest[1], Dash)
          IN  /\ (atEnd \/ isFlag) =>
                    /\ flagMap' = MapPut(flagMap, name, boolTrue)
                    /\ src' = rest
              /\ isBool =>
                    /\ flagMap' = MapPut(flagMap, name, ToLower(rest[1]))
                    /\ src' = Tail(rest)
              /\ (~atEnd /\ ~isFlag /\ ~isBool) =>
                    /\ src' = rest
                    /\ tokPc' = "loop"
                    /\ parseFlagsRet' = NoRet
              /\ (args = BooleansCase /\ src' = <<sF1, sF2>>) =>
                    /\ flagMap'[sB1] = boolTrue
                    /\ flagMap'[sB2] = boolTrue
                    /\ flagMap'[sB3] = boolTrue]_vars

C14_Witness ==
    /\ CliconfReturned
    /\ args = BooleansCase
    /\ parseFlagsRet.remainingArgs.val = <<sF1, sF2>>
    /\ \A b \in {sB1, sB2, sB3} : parseFlagsRet.flagMap.val[b] = boolTrue

\* C15 (as claimed): in both packages parseFlags never crashes on a known
\* boolean flag that is the last argument, and ["--b1"] with b1 boolean
\* returns {b1:"true"}, no remaining arguments and no error.
C15_BooleanAtEnd ==
    /\ tokPc # "panicked"
    /\ (args = <<Long(sB1)>> /\ sB1 \in booleans /\ tokPc # "loop") =>
          /\ tokPc = "returned"
          /\ parseFlagsRet.err.nil
          /\ parseFlagsRet.flagMap = Some(sB1 :> boolTrue)
          /\ parseFlagsRet.remainingArgs = Some(<<>>)

\* ------------------------------------------------------ ParseCombined
\* The results of parseFlags as ParseCombined holds them.
remainingArgs == parseFlagsRet.remainingArgs.val

\* The order in which "for k := range dd.flagMap" visits the keys is any.
Orders(S) ==
    { f \in [1..Cardinality(S) -> S] : \A x \in S : \E i \in DOMAIN f : f[i] = x }

\* remaining.fieldVal.Set(reflect.ValueOf(remainingArgs))
RemainingValue(all, unclaimed) == all

\* toStructVal, findStructFields and the loop sorting the fields; a
\* structural error is returned, otherwise parseFlags is called.
PCSetup ==
    /\ pcPc = "setup"
    /\ bindings' = Bindings(structDef)
    /\ LET b == Bindings(structDef) IN
         IF ~b.err.nil
         THEN /\ pcPc' = "returned"
              /\ pcRet' = b.err
              /\ UNCHANGED tokVars
         ELSE /\ pcPc' = "parseFlags"
              /\ pcRet' = pcRet
              /\ booleans' = b.booleans
              /\ src' = args
              /\ flagMap' = EmptyMap
              /\ roles' = <<>>
              /\ tokPc' = "loop"
              /\ parseFlagsRet' = NoRet
              /\ UNCHANGED <<impl, args>>
    /\ UNCHANGED <<structDef, environ, envFile, idx, flagErr, flagErrOf,
                   thenRemainingArgs, target>>
    /\ UNCHANGED notCliVars

\* parseFlags has returned: its error is returned at once; otherwise the env
\* file named by --envfile is loaded unless the structure has that flag.
PCParseFlagsReturned ==
    /\ pcPc = "parseFlags"
    /\ tokPc = "returned"
    /\ IF ~parseFlagsRet.err.nil
       THEN /\ pcPc' = "returned"
            /\ pcRet' = parseFlagsRet.err
            /\ UNCHANGED <<flagMap, environ, idx>>
       ELSE IF ~bindings.hasEnvFileFlag
               /\ envFileFlag \in DOMAIN flagMap
       THEN LET loaded == LoadEnvFile(flagMap[envFileFlag], envFile, environ)
            IN  /\ flagMap' = MapDelete(flagMap, envFileFlag)
                /\ environ' = loaded.environ
                /\ IF ~loaded.err.nil
                   THEN /\ pcPc' = "returned"
                        /\ pcRet' = loaded.err
                        /\ idx' = idx
                   ELSE /\ pcPc' = "args"
                        /\ pcRet' = pcRet
                        /\ idx' = 1
       ELSE /\ pcPc' = "args"
            /\ idx' = 1
            /\ UNCHANGED <<flagMap, environ, pcRet>>
    /\ UNCHANGED <<impl, booleans, args, src, roles, tokPc, parseFlagsRet>>
    /\ UNCHANGED <<structDef, envFile, bindings, flagErr, flagErrOf, thenRemainingArgs,
                   target>>
    /\ UNCHANGED notCliVars

\* for idx, arg := range remainingArgs: one pass.
PCArg ==
    /\ pcPc = "args"
    /\ idx <= Len(remainingArgs)
    /\ LET argMap == bindings.argMap
           arg == remainingArgs[idx]
       IN  IF (idx - 1) \in DOMAIN argMap
           THEN LET argField == argMap[idx - 1]
                    set == setFieldValue(argField, arg)
                IN  /\ target' = [target EXCEPT ![argField.fieldName] = set.val]
                    /\ IF ~set.err.nil
                       THEN /\ flagErr' =
                                  Append(flagErr,
                                         ParamError(FieldParamDef(argField),
                                                    set.err.val))
                            /\ flagErrOf' = Append(flagErrOf, argField.fieldName)
                       ELSE UNCHANGED <<flagErr, flagErrOf>>
                    /\ UNCHANGED thenRemainingArgs
           ELSE /\ thenRemainingArgs' = Append(thenRemainingArgs, arg)
                /\ UNCHANGED <<target, flagErr, flagErrOf>>
    /\ idx' = idx + 1
    /\ UNCHANGED <<structDef, environ, envFile, bindings, pcPc, pcRet>>
    /\ UNCHANGED tokVars
    /\ UNCHANGED notCliVars

\* if len(thenRemainingArgs) > 0 { ... }
PCRemaining ==
    /\ pcPc = "args"
    /\ idx > Len(remainingArgs)
    /\ LET remaining == bindings.remaining IN
         IF Len(thenRemainingArgs) > 0 /\ ~remaining.nil
         THEN /\ target' =
                    [target EXCEPT
                       ![remaining.val.fieldName] =
                           Some(RemainingValue(remainingArgs, thenRemainingArgs))]
              /\ UNCHANGED <<flagErr, flagErrOf>>
         ELSE IF Len(thenRemainingArgs) > 0 /\ Len(remainingArgs) > 0
         THEN /\ flagErr' =
                    Append(flagErr,
                           ParamError([NoParamDef EXCEPT !.Remaining = TRUE],
                                      ErrTooManyRemaining))
              /\ flagErrOf' = Append(flagErrOf, "-")
              /\ UNCHANGED target
         ELSE UNCHANGED <<target, flagErr, flagErrOf>>
    /\ pcPc' = "fields"
    /\ idx' = 1
    /\ UNCHANGED <<structDef, environ, envFile, bindings, thenRemainingArgs,
                   pcRet>>
    /\ UNCHANGED tokVars
    /\ UNCHANGED notCliVars

\* for _, field := range flagEnvFields: one pass.
PCField ==
    /\ pcPc = "fields"
    /\ idx <= Len(bindings.flagEnvFields)
    /\ LET field == bindings.flagEnvFields[idx]
           popped == popValue(field, flagMap, environ)
           set == setFieldValue(field, popped.val.val)
       IN  /\ flagMap' = popped.flagMap
           /\ IF popped.val.nil
              THEN /\ UNCHANGED target
                   /\ IF field.optional
                      THEN UNCHANGED <<flagErr, flagErrOf>>
                      ELSE /\ flagErr' =
                                 Append(flagErr,
                                        ParamError(FieldParamDef(field),
                                                   ErrRequired))
                           /\ flagErrOf' = Append(flagErrOf, field.fieldName)
              ELSE /\ target' = [target EXCEPT ![field.fieldName] = set.val]
                   /\ IF ~set.err.nil
                      THEN /\ flagErr' =
                                 Append(flagErr,
                                        ParamError(FieldParamDef(field),
                                                   set.err.val))
                           /\ flagErrOf' = Append(flagErrOf, field.fieldName)
                      ELSE UNCHANGED <<flagErr, flagErrOf>>
    /\ idx' = idx + 1
    /\ UNCHANGED <<structDef, environ, envFile, bindings, pcPc, thenRemainingArgs, pcRet>>
    /\ UNCHANGED <<impl, booleans, args, src, roles, tokPc, parseFlagsRet>>
    /\ UNCHANGED notCliVars

\* for k := range dd.flagMap { ... } and the return.
PCUnknownFlags ==
    /\ pcPc = "fields"
    /\ idx > Len(bindings.flagEnvFields)
    /\ \E order \in Orders(DOMAIN flagMap) :
          /\ flagErr' =
                flagErr \o
                [i \in 1..Len(order) |->
                     ParamError([NoParamDef EXCEPT !.Flag = order[i]],
                                ErrUnknownFlag)]
          /\ flagErrOf' = flagErrOf \o [i \in 1..Len(order) |-> "-"]
    /\ pcRet' = IF Len(flagErr') > 0 THEN ParamErrorsValue(flagErr') ELSE GoNil
    /\ pcPc' = "returned"
    /\ UNCHANGED <<structDef, environ, envFile, bindings, idx,
                   thenRemainingArgs, target>>
    /\ UNCHANGED tokVars
    /\ UNCHANGED notCliVars

\* ParseCombined(reflect.ValueOf(&config), args) on a zero structure.
CliInit ==
    /\ InitGroup /\ ~cancelOnSignals
    /\ InitPar /\ ~parParentDone
    /\ impl = "cliconf"
    /\ args \in SeqsUpTo(CliTokens, MaxArgs)
    /\ booleans = {}
    /\ src = <<>>
    /\ flagMap = EmptyMap
    /\ roles = <<>>
    /\ tokPc = "idle"
    /\ parseFlagsRet = NoRet
    /\ structDef \in Structs
    /\ \E e \in Environments : environ = e.environ /\ envFile = e.file
    /\ bindings = NoBindings
    /\ pcPc = "setup"
    /\ idx = 0
    /\ flagErr = <<>>
    /\ flagErrOf = <<>>
    /\ thenRemainingArgs = <<>>
    /\ target = [n \in {structDef[i].name : i \in 1..Len(structDef)} |-> GoNil]
    /\ pcRet = GoNil
    /\ CmdIdle

NextCli ==
    \/ PCSetup
    \/ ParseFlagsDone
    \/ ParseFlagsRemaining
    \/ ParseFlagsBoolean
    \/ ParseFlagsEquals
    \/ ParseFlagsNoValue
    \/ ParseFlagsValue
    \/ PCParseFlagsReturned
    \/ PCArg
    \/ PCRemaining
    \/ PCField
    \/ PCUnknownFlags

SpecCli == CliInit /\ [][NextCli]_vars

\* ------------------------------------------------ ParseCombined, claims
Untouched == \A n \in DOMAIN target : target[n] = GoNil

\* C16: when parseFlags meets, as the last argument, a flag that is not
\* boolean and has no "=", it returns the single error "flag has no value"
\* naming that flag, with a nil flag map and nil remaining arguments; and
\* ParseCombined's next step returns exactly that error, having set no field
\* and recorded no per-field error.
C16_FlagHasNoValue ==
    [][/\ (AtFlag /\ impl = "cliconf" /\ Len(src) = 1
           /\ Undashed(src[1]) \notin booleans
           /\ ~HasEquals(Undashed(src[1]))) =>
             /\ tokPc' = "returned"
             /\ parseFlagsRet'.err =
                   ParamErrorsValue(<< [Flag |-> Undashed(src[1]),
                                        Err |-> ErrFlagHasNoValue] >>)
             /\ parseFlagsRet'.flagMap = GoNil
             /\ parseFlagsRet'.remainingArgs = GoNil
       /\ (pcPc = "parseFlags" /\ tokPc = "returned"
           /\ ~parseFlagsRet.err.nil) =>
             /\ pcPc' = "returned"
             /\ pcRet' = parseFlagsRet.err
             /\ Untouched'
             /\ flagErr' = <<>>
             /\ environ' = environ]_vars

C16_Witness ==
    /\ pcPc = "returned"
    /\ args = <<LongEq(sN, s7), Long(sFoo)>>
    /\ structDef = FlagConfig
    /\ pcRet = ParamErrorsValue(<< [Flag |-> sFoo, Err |-> ErrFlagHasNoValue] >>)
    /\ Untouched
\* The loop over the flag and env fields is about to resolve a field.
AtField == pcPc = "fields" /\ idx <= Len(bindings.flagEnvFields)

\* C17: each pass of the loop over the flag and env fields takes the
\* field's string from the flag map if the flag is there (an empty value
\* included), else from the environment variable if it is not empty, else
\* "false" for a boolean field, else the declared default (an empty one
\* included); with none of these an optional field is left as it is and any
\* other field gets one "required" error.
C17_Precedence ==
    [][AtField =>
          LET f == bindings.flagEnvFields[idx]
              hasFlag == f.flagName # <<>> /\ f.flagName \in DOMAIN flagMap
              hasEnv == f.envName # "" /\ environ[f.envName] # <<>>
              source == IF hasFlag THEN "flag"
                        ELSE IF hasEnv THEN "env"
                        ELSE IF f.isBool THEN "bool"
                        ELSE IF ~f.defaultVal.nil THEN "default"
                        ELSE "none"
              string == CASE source = "flag" -> flagMap[f.flagName]
                          [] source = "env" -> environ[f.envName]
                          [] source = "bool" -> boolFalse
                          [] source = "default" -> f.defaultVal.val
                          [] OTHER -> <<>>
          IN  /\ source # "none" =>
                    target'[f.fieldName] = setFieldValue(f, string).val
              /\ source = "none" =>
                    /\ target' = target
                    /\ f.optional => flagErr' = flagErr
                    /\ ~f.optional =>
                          /\ Len(flagErr') = Len(flagErr) + 1
                          /\ flagErr'[Len(flagErr')].Err = ErrRequired
                          /\ flagErrOf'[Len(flagErr')] = f.fieldName]_vars

C17_Witness ==
    /\ pcPc = "returned"
    /\ structDef = FlagConfig
    /\ environ["FOO"] = sF2
    /\ environ["N"] = sX
    /\ \E i \in 1..Len(args) : args[i] = LongEq(sFoo, <<>>)
    /\ \E i \in 1..Len(args) : args[i] = LongEq(sN, s7)
    /\ target["Foo"] = Some(<<>>)
    /\ target["Num"] = Some(7)
    /\ target["Verbose"] = Some(TRUE)
    /\ target["Emp"] = Some(<<>>)
    /\ target["Opt"] = GoNil
    /\ pcRet = GoNil
\* ParseCombined got as far as its loops over the arguments and fields.
Resolving == idx >= 1 /\ pcPc \in {"fields", "returned"}
Resolved == idx >= 1 /\ pcPc = "returned"

\* The remaining arguments no index binding claims, in order.
RECURSIVE UnclaimedFrom(_, _)
UnclaimedFrom(i, claimed) ==
    IF i > Len(remainingArgs) THEN <<>>
    ELSE (IF (i - 1) \in claimed THEN <<>> ELSE <<remainingArgs[i]>>)
         \o UnclaimedFrom(i + 1, claimed)
Unclaimed == UnclaimedFrom(1, DOMAIN bindings.argMap)

\* C18 (as claimed): once the arguments are bound, a field bound to index N
\* holds the N-th remaining argument, the remaining field holds exactly the
\* remaining arguments no index binding claimed, in order, and with
\* unclaimed arguments and no remaining field there is one "too many
\* remaining args" error.
C18_Positional ==
    Resolving =>
        /\ \A n \in DOMAIN bindings.argMap :
              n < Len(remainingArgs) =>
                  target[bindings.argMap[n].fieldName] =
                      setFieldValue(bindings.argMap[n], remainingArgs[n + 1]).val
        /\ (~bindings.remaining.nil /\ Len(Unclaimed) > 0) =>
              target[bindings.remaining.val.fieldName] = Some(Unclaimed)
        /\ (bindings.remaining.nil /\ Len(Unclaimed) > 0) =>
              Cardinality({i \in 1..Len(flagErr) :
                              flagErr[i].Err = ErrTooManyRemaining}) = 1

\* The names of the flags the flag and env fields are bound to.
FieldFlags ==
    {bindings.flagEnvFields[i].flagName :
        i \in 1..Len(bindings.flagEnvFields)} \ {<<>>}

\* C19: when the loop over the fields is over, the flag map holds exactly
\* the tokenizer's entries that no field is bound to (less the envfile entry
\* ParseCombined took out itself), and ParseCombined appends for each of
\* them exactly one "unknown flag" entry naming it to the errors recorded
\* for the fields, which it returns together; by then every flag or env
\* field was resolved: it is set, has its error, or is optional.
C19_UnknownFlags ==
    [][(pcPc = "fields" /\ idx > Len(bindings.flagEnvFields)) =>
          /\ DOMAIN flagMap =
                (DOMAIN parseFlagsRet.flagMap.val) \
                    (FieldFlags \cup
                        (IF bindings.hasEnvFileFlag THEN {} ELSE {envFileFlag}))
          /\ Len(flagErr') = Len(flagErr) + Cardinality(DOMAIN flagMap)
          /\ SubSeq(flagErr', 1, Len(flagErr)) = flagErr
          /\ \A k \in DOMAIN flagMap :
                Cardinality({i \in (Len(flagErr) + 1)..Len(flagErr') :
                                /\ flagErr'[i].Err = ErrUnknownFlag
                                /\ flagErr'[i].ParamDef.Flag = k}) = 1
          /\ pcPc' = "returned"
          /\ Len(flagErr') > 0 => pcRet' = ParamErrorsValue(flagErr')
          /\ target' = target
          /\ \A i \in 1..Len(bindings.flagEnvFields) :
                LET f == bindings.flagEnvFields[i] IN
                \/ target[f.fieldName] # GoNil
                \/ \E j \in 1..Len(flagErrOf) : flagErrOf[j] = f.fieldName
                \/ f.optional]_vars

C19_Witness ==
    /\ Resolved
    /\ structDef = TestConfig
    /\ args = <<LongEq(sZz, sF1), LongEq(sFoo, sF1), sF1>>
    /\ pcRet = ParamErrorsValue(
                  << ParamError([NoParamDef EXCEPT !.Flag = sZz],
                                ErrUnknownFlag) >>)
    /\ target["Foo"] = Some(sF1)
    /\ target["Bar"] = Some(sBar)
    /\ target["Baz"] = Some(FALSE)
    /\ target["Arg"] = Some(sF1)

\* What became of a field: it is required and nothing supplies it, or the
\* string it is set from cannot be converted.
AllFields ==
    [i \in 1..Len(bindings.flagEnvFields) |-> bindings.flagEnvFields[i]]
    \o [i \in 1..Cardinality(DOMAIN bindings.argMap) |->
           bindings.argMap[CHOOSE n \in DOMAIN bindings.argMap :
               Cardinality({m \in DOMAIN bindings.argMap : m < n}) = i - 1]]

Supplied(f) ==
    IF ~f.argn.nil
    THEN IF f.argn.val < Len(remainingArgs)
         THEN Some(remainingArgs[f.argn.val + 1]) ELSE f.defaultVal
    ELSE IF f.flagName # <<>> /\ f.flagName \in DOMAIN parseFlagsRet.flagMap.val
    THEN Some(parseFlagsRet.flagMap.val[f.flagName])
    ELSE IF f.envName # "" /\ environ[f.envName] # <<>>
    THEN Some(environ[f.envName])
    ELSE IF f.isBool THEN Some(boolFalse)
    ELSE f.defaultVal

FieldFailed(f) ==
    IF Supplied(f).nil THEN ~f.optional
    ELSE ~setFieldValue(f, Supplied(f).val).err.nil

\* C20 (as claimed): the errors ParseCombined returns after resolving hold
\* exactly one entry for every field that is required but missing or whose
\* value cannot be converted, and none for any other field.
C20_EveryFailureReported ==
    Resolved =>
        \A i \in 1..Len(AllFields) :
            Cardinality({j \in 1..Len(flagErrOf) :
                            flagErrOf[j] = AllFields[i].fieldName})
                = IF FieldFailed(AllFields[i]) THEN 1 ELSE 0

\* A declaration tagged ,remaining or ,argN, and a structure none of whose
\* fields structField refuses.
IsRemainingDecl(d) ==
    LET parts == SplitN(d.flag, ",") IN Len(parts) = 2 /\ parts[2] = tagRemaining
IsArgDecl(d) ==
    LET parts == SplitN(d.flag, ",") IN
    Len(parts) = 2 /\ HasPrefix(parts[2], tagArg)
DeclFlagName(d) == SplitN(d.flag, ",")[1]
FieldsWellFormed == findStructFields(structDef).err.nil

\* C21: ParseCombined, on a structure with two (well-formed) fields tagged
\* ,remaining, returns at setup the error "only one field can be tagged
\* with ,remaining", whatever the arguments: parseFlags is not called, no
\* field is set and no per-field error is recorded.
C21_TwoRemaining ==
    [][(/\ pcPc = "setup"
        /\ FieldsWellFormed
        /\ Cardinality({i \in 1..Len(structDef) :
                           IsRemainingDecl(structDef[i])}) >= 2) =>
          /\ pcPc' = "returned"
          /\ pcRet' = ErrorValue(ErrOnlyOneRemaining)
          /\ tokPc' = "idle"
          /\ parseFlagsRet' = NoRet
          /\ Untouched'
          /\ flagErr' = <<>>]_vars

C21_Witness ==
    /\ pcPc = "returned"
    /\ structDef = TwoRemaining
    /\ args = <<LongEq(sFoo, sF1), sF1>>
    /\ pcRet = ErrorValue(ErrOnlyOneRemaining)
    /\ tokPc = "idle"
    /\ Untouched

\* Every field binding ParseCombined works with.
BoundFields ==
    {bindings.flagEnvFields[i] : i \in 1..Len(bindings.flagEnvFields)}
    \cup {bindings.argMap[n] : n \in DOMAIN bindings.argMap}
    \cup (IF bindings.remaining.nil THEN {} ELSE {bindings.remaining.val})

\* C22 (as claimed): a structure with a field whose tag has ,argN or
\* ,remaining together with a flag name or an env name is refused at setup
\* with a structural error, and no binding ParseCombined accepts has a
\* position or the remaining role together with a flag or env name.
C22_PositionalExclusive ==
    pcPc \notin {"idle", "setup"} =>
        /\ (\E i \in 1..Len(structDef) :
               /\ IsRemainingDecl(structDef[i]) \/ IsArgDecl(structDef[i])
               /\ DeclFlagName(structDef[i]) # <<>> \/ structDef[i].env # "")
              => (pcPc = "returned" /\ ~pcRet.nil /\ pcRet.type = "error"
                  /\ tokPc = "idle")
        /\ bindings.err.nil =>
              \A f \in BoundFields :
                  (~f.argn.nil \/ f.remaining) =>
                      (f.flagName = <<>> /\ f.envName = "")

\* C23 (as claimed): when ParseCombined returns after resolving, every
\* positional field that is not optional, has no default and whose index is
\* beyond the remaining arguments has one "required" entry among the errors;
\* a positional field left unset without an entry is optional.
C23_RequiredPositional ==
    Resolved =>
        \A n \in DOMAIN bindings.argMap :
            LET f == bindings.argMap[n] IN
            (n >= Len(remainingArgs) /\ ~f.optional /\ f.defaultVal.nil) =>
                /\ Cardinality({j \in 1..Len(flagErr) :
                                   /\ flagErrOf[j] = f.fieldName
                                   /\ flagErr[j].Err = ErrRequired}) = 1
                /\ ~pcRet.nil

\* C29 (as claimed): every known boolean flag read as a flag by parseFlags
\* has an entry in the flag map it returns, and ParseCombined on
\* ["--b1", "f1"] sets the boolean field of flag b1 to true and has "f1" as
\* the first remaining argument.
C29_BooleanFlagKept ==
    /\ (tokPc = "returned" /\ parseFlagsRet.err.nil) =>
          \A j \in 1..Len(roles) :
              (roles[j] = "flag" /\ NameOf(args[j]) \in booleans) =>
                  NameOf(args[j]) \in DOMAIN parseFlagsRet.flagMap.val
    /\ (Resolved /\ structDef = TestConfig /\ args = <<Long(sB1), sF1>>) =>
          /\ target["Baz"] = Some(TRUE)
          /\ remainingArgs = <<sF1>>

\* C28: in parallel.Group, while the parent context is not cancelled, the
\* derived context is cancelled only after an error has been recorded, the
\* error recorded first is recorded while the derived context is still live
\* (so its function returned before any cancellation), and that error is the
\* one Wait returns: never the error of a function that returned because the
\* context was cancelled.
C28_RecordBeforeCancel ==
    [][~parParentDone' =>
          /\ ctxDone' => firstErr' # Nil
          /\ (firstErr = Nil /\ firstErr' # Nil) =>
                /\ ~ctxDone
                /\ firstHandled' \in 1..Len(funcs)
                /\ firstErr' = funcs[firstHandled'].err
                /\ funcs[firstHandled'].kind = "fail"
          /\ (parWait.pc = "wgWait" /\ parWait'.pc = "returned" /\ AnyFuncErr) =>
                /\ parWait'.ret = funcs[firstHandled].err
                /\ funcs[firstHandled].kind = "fail"]_vars

C28_Witness ==
    /\ ~parParentDone
    /\ parWait = [pc |-> "returned", ret |-> "Error 2"]
    /\ Len(funcs) = 3
    /\ funcs[1].kind = "waitFail" /\ funcs[1].err = "Error 1"
    /\ funcs[2].kind = "fail"
    /\ funcs[3].kind = "waitErr" /\ funcs[3].err = Canceled

\* C24 (as claimed): at the step at which Run returns (the one call besides
\* the calls of Add), the log entries without a runner name are exactly
\* "Run group triggered" (INFO) followed by "Run group exited" (INFO) when no
\* runner's error reached the errgroup and by "Run group exited with error"
\* (ERROR) otherwise.
C24_GroupLogAtReturn ==
    [][(waitResult = "-" /\ waitResult' # "-" /\ calls = Len(runners) + 1) =>
          groupLog' =
              << Entry("INFO", LogLineGroupStarted),
                 IF firstFailed = 0
                 THEN Entry("INFO", LogLineGroupExited)
                 ELSE Entry("ERROR", LogLineGroupExitedWithError) >>]_vars

\* C25: Add on a group that is running and not yet waiting starts the
\* function at once, as one more worker of the errgroup and with the run
\* context the group has; as long as Wait has not been called the hold-open
\* worker keeps the errgroup's counter above zero, so the group is not
\* finished; Wait returns only when every function so added has returned
\* and exited; and when such a function returns an error other than
\* context.Canceled while no error is stored, that error is stored as the
\* group's and the run context is cancelled.
C25_AddAfterStart ==
    [][/\ (running' /\ ~isWaiting') =>
             /\ holdPc' = "waiting"
             /\ errGroup'.wg >= 1
             /\ waitResult' = "-"
       /\ (Len(runners') > Len(runners) /\ running) =>
             /\ ~isWaiting
             /\ runners'[Len(runners')].pc = "spawned"
             /\ runners'[Len(runners')].by = "Add"
             /\ errGroup'.wg = errGroup.wg + 1
             /\ runContext' = runContext /\ runContext.made
       /\ (waitResult = "-" /\ waitResult' # "-") =>
             \A i \in 1..Len(runners) :
                 runners[i].by = "Add" => runners[i].pc = "done"
       /\ \A i \in 1..Len(runners) :
             (/\ runners[i].by = "Add"
              /\ runners[i].pc = "stopped" /\ runners'[i].pc = "done"
              /\ runners[i].ret \notin {Nil, Canceled}
              /\ errGroup.err = Nil) =>
                 /\ errGroup'.err = runners[i].ret
                 /\ runContext'.done
                 /\ ~runContext.done => runContext'.cause = runners[i].ret]_vars

C25_Witness ==
    /\ Len(runners) = 1
    /\ runners[1].by = "Add"
    /\ runners[1].kind = "fail"
    /\ waitResult = "Error 1"
    /\ runContext.cause = "Error 1"

\* C27: startRunner is called exactly once for every registered function
\* once the group runs and not before; a function registered before Start is
\* started by Start, one registered afterwards by Add itself; and a call of
\* Start (or Run) on a running group returns "group already triggered" and
\* changes neither the runners, the errgroup, the hold-open channel nor the
\* run context.
C27_StartedOnce ==
    [][/\ \A i \in 1..Len(runners') :
             runners'[i].starts = IF running' THEN 1 ELSE 0
       /\ Len(runners') > Len(runners) =>
             LET r == runners'[Len(runners')] IN
             IF running THEN r.by = "Add" /\ r.pc = "spawned"
             ELSE r.by = "-" /\ r.pc = "pending"
       /\ (~running /\ running') =>
             /\ Len(runners') = Len(runners)
             /\ \A i \in 1..Len(runners) :
                   /\ runners[i].pc = "pending"
                   /\ runners'[i].pc = "spawned"
                   /\ runners'[i].by = "Start"
       /\ (running /\ last' # last /\ last'.op \in {"Start", "Run"}) =>
             /\ last'.ret = ErrAlreadyTriggered
             /\ UNCHANGED <<running, runners, errGroup, runContext, holdOpen,
                            holdPc, groupLog>>]_vars

C27_Witness ==
    /\ running
    /\ Len(runners) = 2
    /\ runners[1].by = "Start" /\ runners[1].starts = 1
    /\ runners[2].by = "Add" /\ runners[2].starts = 1
    /\ \A i \in 1..2 : runners[i].pc = "done"

\* C30: the caller of Wait holds controlMutex from Wait's first statement to
\* its return; while it does, no call of Add returns, registers or starts
\* anything, and a call of Add sitting in controlMutex.Lock() stays there;
\* and once a runner whose function calls Add on the group has been started
\* and Wait is in errGroup.Wait(), both stay where they are for ever: the
\* runner does not return and Wait does not return.
WaitInProgress ==
    \E c \in Callers : callers[c].pc \in {"errGroupWait", "waitLog"}

C30_AddDuringWait ==
    [][/\ \A c \in Callers :
             callers'[c].pc \in {"errGroupWait", "waitLog"} => controlMutex' = c
       /\ WaitInProgress =>
             /\ Len(runners') = Len(runners)
             /\ last'.op = "Add" => last' = last
             /\ \A c \in Callers :
                   callers[c].pc = "Add" => callers'[c].pc = "Add"
       /\ \A c \in Callers : \A i \in 1..Len(runners) :
             (/\ callers[c].pc = "errGroupWait"
              /\ runners[i].kind = "adder"
              /\ runners[i].pc \in {"spawned", "running"}) =>
                 /\ callers'[c].pc = "errGroupWait"
                 /\ runners'[i].pc \in {"spawned", "running"}
                 /\ errGroup'.wg >= 1
                 /\ waitResult' = "-"]_vars

C30_Witness ==
    /\ \E c \in Callers : callers[c].pc = "errGroupWait" /\ controlMutex = c
    /\ Len(runners) = 1
    /\ runners[1].kind = "adder" /\ runners[1].pc = "running"
    /\ holdPc = "done"
    /\ errGroup.wg = 1
    /\ \E c \in Callers : callers[c].pc = "Add"

\* ------------------------------------------------- commander.parseArgs
\* One pass of "for len(rem) > 0" over an argument with a leading dash: it
\* goes to out, and unless it contains "=" so does the argument after it (if
\* there is none the loop is left, rem being empty).
ParseArgsFlag ==
    /\ cmdPc = "loop"
    /\ Len(rem) > 0
    /\ HasPrefix(rem[1], Dash)
    /\ IF Contains(rem[1], "=") \/ Len(rem) = 1
       THEN /\ out' = Append(out, rem[1])
            /\ rem' = Tail(rem)
            /\ cmdRoles' = Append(cmdRoles, "flag")
       ELSE /\ out' = out \o <<rem[1], rem[2]>>
            /\ rem' = Tail(Tail(rem))
            /\ cmdRoles' = cmdRoles \o <<"flag", "value">>
    /\ UNCHANGED <<cmdInput, cmdPc, parseArgsRet>>
    /\ UNCHANGED notCmdVars

\* The returns: "", nil for no arguments; "", out when rem is used up; else
\* the first element of rem is the command and the rest of rem goes to out.
ParseArgsReturn ==
    /\ cmdPc = "loop"
    /\ IF Len(rem) = 0 THEN TRUE ELSE ~HasPrefix(rem[1], Dash)
    /\ parseArgsRet' =
          IF Len(cmdInput) = 0 THEN [cmd |-> <<>>, args |-> GoNil]
          ELSE IF Len(rem) = 0 THEN [cmd |-> <<>>, args |-> Some(out)]
          ELSE [cmd |-> rem[1], args |-> Some(out \o Tail(rem))]
    /\ cmdPc' = "returned"
    /\ UNCHANGED <<cmdInput, rem, out, cmdRoles>>
    /\ UNCHANGED notCmdVars

\* parseArgs(args) as TestCLIParse calls it.
CmdInit ==
    /\ InitGroup /\ ~cancelOnSignals
    /\ InitPar /\ ~parParentDone
    /\ CliIdle
    /\ cmdInput \in CmdInputs
    /\ rem = cmdInput
    /\ out = <<>>
    /\ cmdRoles = <<>>
    /\ cmdPc = "loop"
    /\ parseArgsRet = [cmd |-> <<>>, args |-> GoNil]

NextCmd ==
    \/ ParseArgsFlag
    \/ ParseArgsReturn

SpecCmd == CmdInit /\ [][NextCmd]_vars

\* C26: when parseArgs returns having found a command, the command is the
\* first argument that neither starts with "-" nor was taken as the value of
\* the flag before it, a value being taken exactly after a flag without "=";
\* the arguments returned are the input without that one argument, in the
\* input's order; and the cases of TestCLIParse give what the test expects.
C26_ParseArgs ==
    (cmdPc = "returned" /\ Len(cmdRoles) < Len(cmdInput)) =>
        LET k == Len(cmdRoles) IN
        /\ parseArgsRet.cmd = cmdInput[k + 1]
        /\ ~HasPrefix(cmdInput[k + 1], Dash)
        /\ \A j \in 1..k :
              /\ cmdRoles[j] = "flag" => HasPrefix(cmdInput[j], Dash)
              /\ cmdRoles[j] = "value" <=>
                    (/\ j > 1
                     /\ cmdRoles[j - 1] = "flag"
                     /\ ~HasEquals(cmdInput[j - 1]))
        /\ parseArgsRet.args =
              Some(SubSeq(cmdInput, 1, k) \o SubSeq(cmdInput, k + 2, Len(cmdInput)))
        /\ \A tc \in TestCLIParse :
              cmdInput = tc.input =>
                  /\ parseArgsRet.cmd = tc.wantCommand
                  /\ parseArgsRet.args = Some(tc.wantArgs)

C26_Witness ==
    /\ cmdPc = "returned"
    /\ cmdInput = <<Long(sFlag1), sValue1, sCommand, Long(sFlag2), sValue2, sArg1>>
    /\ cmdRoles = <<"flag", "value">>
    /\ parseArgsRet =
          [cmd |-> sCommand,
           args |-> Some(<<Long(sFlag1), sValue1, Long(sFlag2), sValue2, sArg1>>)]

====
